---- MODULE Spec2Model ----
(***************************************************************************)
(* Model of the supplement-agent orchestration core:                       *)
(*   src/src/orchestrator/core.py         Orchestrator                     *)
(*   src/src/orchestrator/review_loop.py  ReviewLoop                       *)
(*   src/src/agents/base.py               BaseAgent.run_with_retry         *)
(*                                                                         *)
(* Optional values (Python None / value) are sequences of length 0 / 1.    *)
(* External model calls are the environment: every call either returns a   *)
(* value drawn from a small set or raises.  An exception is modelled by    *)
(* its message.                                                            *)
(***************************************************************************)
EXTENDS Integers, Sequences, FiniteSets, TLC

VARIABLES
    \* ---- the job and the framework selection handed to Orchestrator() ----
    nPhotos,                    \* len(job.photos)
    vision_framework_name,
    estimate_framework_name,
    gap_framework_name,
    strategist_framework_name,
    secondary_vision,           \* whether _create_secondary_vision_client gave a client
    secondary_text,             \* whether _create_secondary_text_client gave a client
    vision_framework,           \* `name` of the framework object built, or "none"
    estimate_framework,
    gap_framework,
    strategist_framework,
    \* ---- Orchestrator.run(): position and outcome ----
    pc,                         \* phase of run() that executes next
    result,                     \* Optional OrchestratorResult returned by run()
    llm_call_count,
    agent_rerun_counts,
    \* ---- OrchestratorContext ----
    raw_estimate_text,
    vision_evidence,
    estimate_interpretation,
    gap_analysis,
    supplement_strategy,
    review_result,              \* the latest review (context.review_results, an
                                \* append-only log nothing reads, is not modelled)
    review_cycle_count,
    \* ---- _run_extraction_phase locals and its tasks ----
    batch_idx,
    photo_pc,                   \* per photo: position of _run_vision_with_retry
    photo_attempt,              \* per photo: loop variable `attempt`
    all_vision_results,
    estimate_task,              \* "none" | "running" | "done"
    estimate_task_value,        \* Optional result of the finished estimate task
    \* ---- ReviewLoop locals ----
    sorted_reruns,              \* rerun requests not yet reached by the for loop
    changes,                    \* local `changes` of _process_feedback
    rerun_calls,                \* stage calls of the rerun in progress, in order
    loop_exit,                  \* which return statement of execute() was taken
    loop_result,                \* Optional ReviewResult returned by execute()
    \* ---- observation of the run (not read by the program) ----
    reruns_executed,            \* per target agent: executed _execute_rerun calls
    reruns_skipped,             \* rerun requests skipped by _can_rerun
    changed_cycles,             \* cycles whose _process_feedback returned True
    cycle_events,               \* Optional: what the _process_feedback call in
                                \* progress did so far, in order; None when the
                                \* calls are not observed
    stage_runs,                 \* per stage: executions started
    raised,                     \* Optional: the exception that escaped a phase
    call_attempts,              \* run() attempts made by the latest review or
                                \* report call
    \* ---- BaseAgent.run_with_retry (one invocation) ----
    stage_output,               \* the objects the gap and strategist stages
                                \* returned last, as a holder of those
                                \* references reads them now
    rw_max_retries,
    rw_retry_delay,
    rw_pc,
    rw_attempt,
    rw_last_error,
    rw_run_calls,
    rw_sleeps,                  \* delays slept so far, in order
    rw_errors,                  \* what each failed run() call raised, in order
    rw_outcome,                 \* Optional: how run_with_retry ended
    \* ---- a stage agent's run() (one invocation) ----
    ag_name,                    \* `name` of the agent, "none" when not observed
    ag_pc,
    ag_calls,                   \* model calls issued so far, in order
    ag_responses,               \* responses handed to _parse_response, in order
    ag_outcome,                 \* Optional: how run() ended
    \* ---- a framework's analyze() (one invocation) ----
    fw_kind,                    \* the framework class, "none" when not observed
    fw_context,                 \* what the fallbacks read of the context
    fw_tasks,                   \* per model: state of its agent call
    fw_pc,
    fw_a,                       \* Optional: primary result in the debate
    fw_b,                       \* Optional: secondary result in the debate
    fw_round,                   \* debate rounds carried out
    fw_outcome,                 \* Optional: how analyze() ended
    fw_answers,                 \* observation: the patches the two models
                                \* answered in the latest debate round
                                \* (Optional each: None when the re-prompt failed)
    \* --- the job API (api/routes/jobs.py over api/store.py) ---
    api_jobs,                   \* job id -> Optional record of the jobs table
    api_tasks,                  \* job id -> position of its process_job task
    api_response                \* Optional: the last response of a route

jobVars == <<nPhotos, vision_framework_name, estimate_framework_name,
             gap_framework_name, strategist_framework_name,
             secondary_vision, secondary_text, vision_framework,
             estimate_framework, gap_framework, strategist_framework>>
ctxVars == <<raw_estimate_text, vision_evidence, estimate_interpretation,
             gap_analysis, supplement_strategy, review_result,
             review_cycle_count>>
extractVars == <<batch_idx, photo_pc, photo_attempt, all_vision_results,
                 estimate_task, estimate_task_value>>
loopVars == <<sorted_reruns, changes, rerun_calls, loop_exit, loop_result>>
loopObs == <<reruns_executed, reruns_skipped, changed_cycles, cycle_events>>
obsVars == <<loopObs, stage_runs, raised, call_attempts, stage_output>>
runVars == <<pc, result, llm_call_count, agent_rerun_counts>>
rwVars == <<rw_max_retries, rw_retry_delay, rw_pc, rw_attempt, rw_last_error,
            rw_run_calls, rw_sleeps, rw_errors, rw_outcome>>
orchVars == <<jobVars, runVars, ctxVars, extractVars, loopVars, obsVars>>
agVars == <<ag_name, ag_pc, ag_calls, ag_responses, ag_outcome>>
fwVars == <<fw_kind, fw_context, fw_tasks, fw_pc, fw_a, fw_b, fw_round,
            fw_outcome, fw_answers>>
\* the units explored on their own, outside a run
apiVars == <<api_jobs, api_tasks, api_response>>
unitVars == <<rwVars, agVars, fwVars, apiVars>>
vars == <<orchVars, unitVars>>

----------------------------------------------------------------------------
(* Program constants *)

MAX_REVIEW_CYCLES == 2
MAX_RERUNS_PER_AGENT == 1
MAX_TOTAL_LLM_CALLS == 12
PHOTO_BATCH_SIZE == 5
MAX_RETRIES == 3
RETRY_DELAY == 2
max_retries == 3
retry_delay == 2

(* Bounds of the model *)

MaxPhotosRun == 1       \* photos of a job in a whole run
MaxPhotos == 6          \* photos of a job when only extraction is explored
MaxReruns == 1          \* rerun requests in one review
MaxAdjustments == 1     \* adjustments in one review
MaxFlags == 1           \* human flags in one review
MaxRetriesCfg == 3      \* largest max_retries an agent is configured with
MaxItems == 2           \* items in one model's result
MaxLoopReruns == 2      \* rerun requests in one review when the feedback
                        \* calls are observed

None == <<>>
Some(x) == <<x>>

Min(a, b) == IF a < b THEN a ELSE b

SeqsUpTo(S, n) == UNION {[1..k -> S] : k \in 0..n}

TargetAgents == {"vision_agent", "estimate_agent", "gap_agent", "supplement_agent"}
Stages == {"estimate", "gap", "strategist", "review", "report"}
Errors == {"E1", "E2"}
RetryErrors == {"E1", "E2", "E3"}
RetryValues == {"R1", "R2"}

----------------------------------------------------------------------------
(* Data produced by the stages *)

\* A VisionEvidence, identified by the position of the photo it was made for.
Evidence(p) == [photo |-> p]

\* The job's inputs the fallbacks read.  Margins are hundredths (0.33 is
\* 33), money is whole dollars.
minimum_margin == 33
JobCosts == [materials_cost |-> 50, labor_cost |-> 30, other_costs |-> 0]

LLMEstimate ==
    [line_items |-> <<"L1">>, parsing_confidence |-> 1,
     financials |-> [original_estimate_total |-> 100,
                     actual_costs |-> [total |-> 80]]]

create_fallback_estimate(context) ==
    [line_items |-> <<>>, parsing_confidence |-> 0,
     financials |-> [original_estimate_total |-> 0,
                     actual_costs |-> [total |-> context.materials_cost
                                                 + context.labor_cost
                                                 + context.other_costs]]]

LLMGapAnalysis ==
    [scope_gaps |-> <<[gap_id |-> "G1", severity |-> "major",
                       unpaid_work_risk |-> TRUE]>>,
     coverage_summary |-> [critical_gaps |-> 0, major_gaps |-> 1, minor_gaps |-> 0,
                           total_unpaid_risk_items |-> 1]]

create_fallback_gap_analysis ==
    [scope_gaps |-> <<>>,
     coverage_summary |-> [critical_gaps |-> 0, major_gaps |-> 0, minor_gaps |-> 0,
                           total_unpaid_risk_items |-> 0]]

\* A strategy as the model states it: (120 - 80) / 120 is a margin of 33.
LLMSupplementStrategy ==
    [supplements |-> <<[supplement_id |-> "S1", priority |-> "high"]>>,
     margin_analysis |-> [original_estimate |-> 100, total_costs |-> 80,
                          current_margin |-> 20,
                          proposed_supplement_total |-> 20,
                          new_estimate_total |-> 120,
                          projected_margin |-> 33, target_margin |-> 33,
                          target_achieved |-> TRUE]]

\* A strategy whose margin figures the model added up wrongly.  The schema
\* declares plain fields, so the response validates.
LLMSupplementStrategyMiscalculated ==
    [LLMSupplementStrategy EXCEPT !.margin_analysis.new_estimate_total = 100]

\* (a - b) / a in hundredths, 0 when a is not positive.
Margin(total, costs) ==
    IF total > 0 THEN ((total - costs) * 100) \div total ELSE 0

\* context: the Optional estimate interpretation and the target margin.
create_fallback_supplement_strategy(context) ==
    LET estimate == context.estimate_interpretation
        original_estimate ==
            IF estimate = None THEN 0
            ELSE estimate[1].financials.original_estimate_total
        total_costs ==
            IF estimate = None THEN 0
            ELSE estimate[1].financials.actual_costs.total
        current_margin == Margin(original_estimate, total_costs)
    IN [supplements |-> <<>>,
        margin_analysis |-> [original_estimate |-> original_estimate,
                             total_costs |-> total_costs,
                             current_margin |-> current_margin,
                             proposed_supplement_total |-> 0,
                             new_estimate_total |-> original_estimate,
                             projected_margin |-> current_margin,
                             target_margin |-> context.target_margin,
                             target_achieved |->
                                 current_margin >= context.target_margin]]

\* What SingleEstimateFramework.analyze can return: the agent's result, or
\* the fallback when run_with_retry raised.
EstimateResults(context) == {LLMEstimate, create_fallback_estimate(context)}
GapResults == {LLMGapAnalysis, create_fallback_gap_analysis}
StrategistResults(context) ==
    {LLMSupplementStrategy, LLMSupplementStrategyMiscalculated,
     create_fallback_supplement_strategy(context)}

----------------------------------------------------------------------------
(* Review results: the inputs the Review Agent can hand to the loop *)

RerunPriorities == {"critical", "low"}
RerunRequests == [target_agent : TargetAgents, priority : RerunPriorities]

Adjustments ==
    { [target_type |-> "supplement", target_id |-> "S1",
       field |-> "priority", suggested_value |-> "low"],
      [target_type |-> "supplement", target_id |-> "S1",
       field |-> "no_such_field", suggested_value |-> "low"],
      [target_type |-> "gap", target_id |-> "G1",
       field |-> "severity", suggested_value |-> "critical"],
      [target_type |-> "gap", target_id |-> "G9",
       field |-> "severity", suggested_value |-> "critical"],
      [target_type |-> "line_item", target_id |-> "L1",
       field |-> "quantity", suggested_value |-> "low"] }

FlagSeverities == {"critical", "warning"}
HumanFlags == [flag_id : {"F1"}, severity : FlagSeverities]

ReviewResults(maxReruns, maxAdj, maxFlags) ==
    [approved : BOOLEAN,
     ready_for_delivery : BOOLEAN,
     overall_assessment : {"assessment"},
     reruns_requested : SeqsUpTo(RerunRequests, maxReruns),
     adjustments_requested : SeqsUpTo(Adjustments, maxAdj),
     human_flags : SeqsUpTo(HumanFlags, maxFlags)]

AllReviews == ReviewResults(MaxReruns, MaxAdjustments, MaxFlags)

\* What context.review_result keeps of a ReviewResult once its request lists
\* have been handed to _process_feedback.
ReviewHead(r) ==
    [approved |-> r.approved,
     ready_for_delivery |-> r.ready_for_delivery,
     overall_assessment |-> r.overall_assessment,
     human_flags |-> r.human_flags]

----------------------------------------------------------------------------
(* ReviewLoop: pure helpers *)

_priority_value(priority) ==
    CASE priority = "critical" -> 0
      [] priority = "high" -> 1
      [] priority = "medium" -> 2
      [] priority = "low" -> 3
      [] OTHER -> 4

\* sorted(reruns, key=_priority_value): Python's sort is stable.
WithPriorityValue(reruns, k) ==
    SelectSeq(reruns, LAMBDA x : _priority_value(x.priority) = k)

\* The requests are taken in the order of the review.
sorted_by_priority_unsorted(reruns) == reruns

sorted_by_priority(reruns) ==
    WithPriorityValue(reruns, 0) \o WithPriorityValue(reruns, 1)
    \o WithPriorityValue(reruns, 2) \o WithPriorityValue(reruns, 3)
    \o WithPriorityValue(reruns, 4)

_has_actionable_feedback(review) ==
    review.reruns_requested # <<>> \/ review.adjustments_requested # <<>>

HasCriticalFlag(review) ==
    \E i \in 1..Len(review.human_flags) : review.human_flags[i].severity = "critical"

\* The checks of execute() on a fresh review, in the order of the code:
\* which return statement is taken, or "feedback" to go on to
\* _process_feedback.
\* One flag is enough for approval.
CycleOutcome_either(review) ==
    IF review.approved \/ review.ready_for_delivery THEN "approved"
    ELSE IF HasCriticalFlag(review) THEN "critical_flag"
    ELSE IF ~ _has_actionable_feedback(review) THEN "no_actionable_feedback"
    ELSE "feedback"

\* The critical-flag check comes after the feedback check.
CycleOutcome_flaglast(review) ==
    IF review.approved /\ review.ready_for_delivery THEN "approved"
    ELSE IF _has_actionable_feedback(review) THEN "feedback"
    ELSE IF HasCriticalFlag(review) THEN "critical_flag"
    ELSE "no_actionable_feedback"

CycleOutcome(review) ==
    IF review.approved /\ review.ready_for_delivery THEN "approved"
    ELSE IF HasCriticalFlag(review) THEN "critical_flag"
    ELSE IF ~ _has_actionable_feedback(review) THEN "no_actionable_feedback"
    ELSE "feedback"

\* Off by one in the budget comparison.
_can_rerun_offbyone(counts, agent_name) == counts[agent_name] <= MAX_RERUNS_PER_AGENT

_can_rerun(counts, agent_name) == counts[agent_name] < MAX_RERUNS_PER_AGENT

\* Positions of the items with the given id that carry the named field.
Targets(items, idField, adjustment) ==
    {i \in 1..Len(items) : /\ items[i][idField] = adjustment.target_id
                           /\ adjustment.field \in DOMAIN items[i]}

FirstOf(S) == CHOOSE i \in S : \A j \in S : i <= j

\* Every supplement with the target id is changed, not only the first.
_apply_supplement_adjustment_every_match(adjustment, gap, strategy) ==
    IF strategy = None
    THEN [applied |-> FALSE, gap |-> gap, strategy |-> strategy]
    ELSE LET supps == strategy[1].supplements
             hit == Targets(supps, "supplement_id", adjustment)
         IN IF hit = {}
            THEN [applied |-> FALSE, gap |-> gap, strategy |-> strategy]
            ELSE [applied |-> TRUE, gap |-> gap,
                  strategy |-> Some([strategy[1] EXCEPT
                      !.supplements =
                          [i \in DOMAIN supps |->
                             IF i \in hit
                             THEN [supps[i] EXCEPT ![adjustment.field] =
                                                      adjustment.suggested_value]
                             ELSE supps[i]]])]

\* The three functions below return the pair of context objects after the
\* adjustment, and whether it was applied.
_apply_supplement_adjustment(adjustment, gap, strategy) ==
    IF strategy = None
    THEN [applied |-> FALSE, gap |-> gap, strategy |-> strategy]
    ELSE LET supps == strategy[1].supplements
             hit == Targets(supps, "supplement_id", adjustment)
         IN IF hit = {}
            THEN [applied |-> FALSE, gap |-> gap, strategy |-> strategy]
            ELSE [applied |-> TRUE, gap |-> gap,
                  strategy |-> Some([strategy[1] EXCEPT
                      !.supplements[FirstOf(hit)][adjustment.field] =
                          adjustment.suggested_value])]

_apply_gap_adjustment(adjustment, gap, strategy) ==
    IF gap = None
    THEN [applied |-> FALSE, gap |-> gap, strategy |-> strategy]
    ELSE LET gaps == gap[1].scope_gaps
             hit == Targets(gaps, "gap_id", adjustment)
         IN IF hit = {}
            THEN [applied |-> FALSE, gap |-> gap, strategy |-> strategy]
            ELSE [applied |-> TRUE, strategy |-> strategy,
                  gap |-> Some([gap[1] EXCEPT
                      !.scope_gaps[FirstOf(hit)][adjustment.field] =
                          adjustment.suggested_value])]

_apply_margin_adjustment(adjustment, gap, strategy) ==
    IF strategy = None
    THEN [applied |-> FALSE, gap |-> gap, strategy |-> strategy]
    ELSE IF adjustment.field \in DOMAIN strategy[1].margin_analysis
         THEN [applied |-> TRUE, gap |-> gap,
               strategy |-> Some([strategy[1] EXCEPT
                   !.margin_analysis[adjustment.field] = adjustment.suggested_value])]
         ELSE [applied |-> FALSE, gap |-> gap, strategy |-> strategy]

_apply_adjustment(adjustment, gap, strategy) ==
    CASE adjustment.target_type = "supplement" ->
            _apply_supplement_adjustment(adjustment, gap, strategy)
      [] adjustment.target_type = "gap" ->
            _apply_gap_adjustment(adjustment, gap, strategy)
      [] adjustment.target_type = "margin_analysis" ->
            _apply_margin_adjustment(adjustment, gap, strategy)
      [] OTHER -> [applied |-> FALSE, gap |-> gap, strategy |-> strategy]

\* The adjustment loop of _process_feedback (review_loop.py 62-65): the
\* context objects and `changes` after adjustments 1..n of the list.
RECURSIVE AdjustmentLoop(_, _, _, _)
AdjustmentLoop(adjs, n, gap, strategy) ==
    IF n = 0
    THEN [changes |-> FALSE, gap |-> gap, strategy |-> strategy]
    ELSE LET before == AdjustmentLoop(adjs, n - 1, gap, strategy)
             step == _apply_adjustment(adjs[n], before.gap, before.strategy)
         IN [changes |-> before.changes \/ step.applied,
             gap |-> step.gap, strategy |-> step.strategy]

\* Only the stage of the target agent is called.
RerunCascade_target_only(agent) ==
    CASE agent = "supplement_agent" ->
            <<[stage |-> "strategist", enhanced |-> TRUE]>>
      [] agent = "gap_agent" ->
            <<[stage |-> "gap", enhanced |-> TRUE]>>
      [] agent = "estimate_agent" ->
            <<[stage |-> "estimate", enhanced |-> TRUE]>>
      [] OTHER -> <<>>

\* The stage calls _execute_rerun makes for a target agent, in order; a call
\* is enhanced when it is handed the reviewer's instructions.
RerunCascade(agent) ==
    CASE agent = "supplement_agent" ->
            <<[stage |-> "strategist", enhanced |-> TRUE]>>
      [] agent = "gap_agent" ->
            <<[stage |-> "gap", enhanced |-> TRUE],
              [stage |-> "strategist", enhanced |-> FALSE]>>
      [] agent = "vision_agent" ->
            <<[stage |-> "gap", enhanced |-> FALSE],
              [stage |-> "strategist", enhanced |-> FALSE]>>
      [] agent = "estimate_agent" ->
            <<[stage |-> "estimate", enhanced |-> TRUE],
              [stage |-> "gap", enhanced |-> FALSE],
              [stage |-> "strategist", enhanced |-> FALSE]>>
      [] OTHER -> <<>>

\* What is observed of a _process_feedback call: an adjustment handed to
\* _apply_adjustment and whether it was applied, the rerun requests of the
\* review as sorted() receives them, a rerun request reached by the for loop
\* and whether it was executed, a stage called by _execute_rerun and whether
\* it was handed the reviewer's instructions.  `detail` is the adjustment
\* itself (Optional: None for the other events).
AdjustmentEvent(adjustment, applied) == [event |-> "adjustment", name |-> adjustment.target_type, priority |-> "none", flag |-> applied, detail |-> Some(adjustment)]

RerunEvent(rerun, executed) == [event |-> "rerun", name |-> rerun.target_agent, priority |-> rerun.priority, flag |-> executed, detail |-> None]

RequestEvents(reruns) == [i \in 1..Len(reruns) |-> [event |-> "request", name |-> reruns[i].target_agent, priority |-> reruns[i].priority, flag |-> FALSE, detail |-> None]]

StageEvent(call) == [event |-> "stage", name |-> call.stage, priority |-> "none", flag |-> call.enhanced, detail |-> None]

\* The events so far, and the log after more was observed: nothing is kept
\* when the calls are not observed.
Events == IF cycle_events = None THEN <<>> ELSE cycle_events[1]

Observed(events) == IF cycle_events = None THEN None ELSE Some(events)

\* The events of the adjustment loop of _process_feedback.
AdjustmentEvents(adjs, gap, strategy) ==
    [i \in 1..Len(adjs) |->
        LET before == AdjustmentLoop(adjs, i - 1, gap, strategy)
        IN AdjustmentEvent(adjs[i], _apply_adjustment(adjs[i], before.gap, before.strategy).applied)]

\* The synthetic flag is only a warning.
_create_max_cycles_result_warning ==
    [approved |-> FALSE,
     ready_for_delivery |-> FALSE,
     overall_assessment |-> "Maximum review cycles exceeded without resolution",
     human_flags |-> <<[flag_id |-> "MAX_CYCLES", severity |-> "warning"]>>]

_create_max_cycles_result ==
    [approved |-> FALSE,
     ready_for_delivery |-> FALSE,
     overall_assessment |-> "Maximum review cycles exceeded without resolution",
     human_flags |-> <<[flag_id |-> "MAX_CYCLES", severity |-> "critical"]>>]

----------------------------------------------------------------------------
(* Orchestrator: pure helpers *)

_get_framework_llm_calls(name) ==
    CASE name = "single_model" -> 1
      [] name \in {"parallel_aggregate", "consensus_debate"} -> 2
      [] name = "ensemble_voting" -> 2
      [] OTHER -> 1

_get_estimate_framework_llm_calls(name) ==
    CASE name = "single" -> 1
      [] name = "ensemble" -> 2
      [] OTHER -> 1

_get_gap_framework_llm_calls(name) ==
    CASE name = "single" -> 1
      [] name = "consensus" -> 3
      [] OTHER -> 1

_get_strategist_framework_llm_calls(name) ==
    CASE name = "single" -> 1
      [] name = "consensus" -> 3
      [] OTHER -> 1

\* Ascending sequence of the elements of a finite set of integers.
RECURSIVE Ascending(_)
Ascending(S) ==
    IF S = {} THEN <<>>
    ELSE LET m == CHOOSE x \in S : \A y \in S : x <= y
         IN <<m>> \o Ascending(S \ {m})

\* The delay slept after the failure of attempt `attempt` (counted from 0).
BackoffDelay(delay, attempt) == delay * (attempt + 1)

\* One attempt too many.
HasNextAttempt_extra(attempt, retries) == attempt < retries

\* Whether another attempt follows the failure of attempt `attempt`.
HasNextAttempt(attempt, retries) == attempt < retries - 1

\* The successes of a batch in reverse order.
BatchEvidence_reversed(okPhotos) ==
    [i \in 1..Cardinality(okPhotos) |->
        Evidence(Ascending(okPhotos)[Cardinality(okPhotos) + 1 - i])]

\* The loop over batch_results: the evidence of the photos of the batch whose
\* analysis returned, in batch order.
BatchEvidence(okPhotos) ==
    [i \in 1..Cardinality(okPhotos) |-> Evidence(Ascending(okPhotos)[i])]

total_batches(n) == (n + PHOTO_BATCH_SIZE - 1) \div PHOTO_BATCH_SIZE

\* A batch takes one photo more than PHOTO_BATCH_SIZE.
Batch_oversized(b, n) ==
    {p \in 1..n : /\ p > b * PHOTO_BATCH_SIZE
                  /\ p <= Min(b * PHOTO_BATCH_SIZE + PHOTO_BATCH_SIZE + 1, n)}

\* photos[start:end] of batch b, as photo positions 1..n
Batch(b, n) ==
    {p \in 1..n : /\ p > b * PHOTO_BATCH_SIZE
                  /\ p <= Min(b * PHOTO_BATCH_SIZE + PHOTO_BATCH_SIZE, n)}

\* The failed result also reports the strategy reached so far.
FailedResult_leaky(e, calls) ==
    [success |-> FALSE, status |-> "failed",
     report_html |-> None, supplements |-> supplement_strategy,
     escalation_reason |-> Some(e), human_flags |-> None,
     partial_results |-> None, llm_calls |-> calls, review_cycles |-> 0]

FailedResult(e, calls) ==
    [success |-> FALSE, status |-> "failed",
     report_html |-> None, supplements |-> None,
     escalation_reason |-> Some(e), human_flags |-> None,
     partial_results |-> None, llm_calls |-> calls, review_cycles |-> 0]

\* Flags are attached only when both approval flags are false.
ResultFlags_both(review) ==
    IF ~ review.approved /\ ~ review.ready_for_delivery
    THEN Some(review.human_flags)
    ELSE None

\* run() after _generate_report: the flags attached to the result (Optional).
ResultFlags(review) ==
    IF ~ review.approved \/ ~ review.ready_for_delivery
    THEN Some(review.human_flags)
    ELSE None

CompletedResult(strategy, calls, cycles, flags) ==
    [success |-> TRUE, status |-> "completed",
     report_html |-> Some("html"), supplements |-> strategy,
     escalation_reason |-> None, human_flags |-> flags,
     partial_results |-> None, llm_calls |-> calls, review_cycles |-> cycles]

----------------------------------------------------------------------------
(* Framework factories *)

VISION_FRAMEWORKS ==
    {"single_model", "parallel_aggregate", "consensus_debate", "ensemble_voting"}
ESTIMATE_FRAMEWORKS == {"single", "ensemble"}
GAP_FRAMEWORKS == {"single", "consensus"}
STRATEGIST_FRAMEWORKS == {"single", "consensus"}

\* Each factory gives the `name` of the framework object it builds
\* (Optional: None when it raises ValueError).  secondary_client tells
\* whether a secondary client was passed.
get_framework(name, secondary_client) ==
    IF name = "single_model" \/ ~ secondary_client THEN Some("single_model")
    ELSE IF name = "parallel_aggregate" THEN Some("parallel_aggregate")
    ELSE IF name = "consensus_debate" THEN Some("consensus_debate")
    ELSE IF name = "ensemble_voting" /\ secondary_client
         THEN Some("ensemble_voting")
    ELSE None

get_estimate_framework(name, secondary_client) ==
    IF name = "single" \/ ~ secondary_client THEN Some("single")
    ELSE IF name = "ensemble" THEN Some("ensemble")
    ELSE None

get_gap_framework(name, secondary_client) ==
    IF name = "single" \/ ~ secondary_client THEN Some("single")
    ELSE IF name = "consensus" THEN Some("consensus")
    ELSE None

get_strategist_framework(name, secondary_client) ==
    IF name = "single" \/ ~ secondary_client THEN Some("single")
    ELSE IF name = "consensus" THEN Some("consensus")
    ELSE None

----------------------------------------------------------------------------
(* State after construction *)

\* The fields Orchestrator.__init__ sets whatever the framework selection,
\* and the locals of a run that has not started.
FreshRunWith(photoCounts, outputs) ==
    /\ nPhotos \in photoCounts
    /\ result = None
    /\ llm_call_count = 0
    /\ agent_rerun_counts = [a \in TargetAgents |-> 0]
    /\ raw_estimate_text = ""
    /\ vision_evidence = <<>>
    /\ estimate_interpretation = None
    /\ stage_output \in outputs
    /\ gap_analysis = stage_output.gap
    /\ supplement_strategy = stage_output.strategy
    /\ review_result = None
    /\ review_cycle_count = 0
    /\ batch_idx = 0
    /\ photo_pc = [p \in 1..nPhotos |-> "idle"]
    /\ photo_attempt = [p \in 1..nPhotos |-> 0]
    /\ all_vision_results = <<>>
    /\ estimate_task = "none"
    /\ estimate_task_value = None
    /\ sorted_reruns = <<>>
    /\ changes = FALSE
    /\ rerun_calls = <<>>
    /\ loop_exit = "none"
    /\ loop_result = None
    /\ reruns_executed = [a \in TargetAgents |-> 0]
    /\ reruns_skipped = 0
    /\ changed_cycles = 0
    /\ raised = None
    /\ stage_runs = [s \in Stages |-> 0]
    /\ call_attempts = 0

\* No stage has produced its output yet.
FreshRun(photoCounts) ==
    FreshRunWith(photoCounts, {[gap |-> None, strategy |-> None]})

\* Orchestrator.__init__ with its default framework selection, both
\* secondary clients configured.
DefaultFrameworks ==
    /\ vision_framework_name = "parallel_aggregate"
    /\ estimate_framework_name = "single"
    /\ gap_framework_name = "single"
    /\ strategist_framework_name = "single"
    /\ secondary_vision = TRUE
    /\ secondary_text = TRUE
    /\ vision_framework =
          get_framework(vision_framework_name, secondary_vision)[1]
    /\ estimate_framework =
          get_estimate_framework(estimate_framework_name, secondary_text)[1]
    /\ gap_framework = get_gap_framework(gap_framework_name, secondary_text)[1]
    /\ strategist_framework =
          get_strategist_framework(strategist_framework_name, secondary_text)[1]

OrchestratorInit(photoCounts) ==
    /\ DefaultFrameworks
    /\ pc = "prepare"
    /\ FreshRun(photoCounts)

\* No run_with_retry invocation under observation.
RetryIdle ==
    /\ rw_max_retries = max_retries
    /\ rw_retry_delay = retry_delay
    /\ rw_pc = "idle"
    /\ rw_attempt = 0
    /\ rw_last_error = None
    /\ rw_run_calls = 0
    /\ rw_sleeps = <<>>
    /\ rw_errors = <<>>
    /\ rw_outcome = None

\* No agent run() under observation.
AgentIdle ==
    /\ ag_name = "none"
    /\ ag_pc = "idle"
    /\ ag_calls = <<>>
    /\ ag_responses = <<>>
    /\ ag_outcome = None

NoAnswers == [primary |-> None, secondary |-> None]

\* No framework analyze() under observation.
FrameworkIdle ==
    /\ fw_kind = [stage |-> "none", name |-> "none"]
    /\ fw_context = None
    /\ fw_tasks = <<>>
    /\ fw_pc = "idle"
    /\ fw_a = None
    /\ fw_b = None
    /\ fw_round = 0
    /\ fw_outcome = None
    /\ fw_answers = NoAnswers

\* The _process_feedback calls of the run are not observed.
FeedbackUnobserved == cycle_events = None

\* No request of the job API under observation.
ApiIdle ==
    /\ api_jobs = <<>>
    /\ api_tasks = <<>>
    /\ api_response = None

Init == OrchestratorInit(0..MaxPhotosRun) /\ RetryIdle /\ AgentIdle /\ FrameworkIdle
        /\ ApiIdle /\ FeedbackUnobserved

----------------------------------------------------------------------------
(* Orchestrator.run *)

\* `except Exception as e` of run(): the failed result.
Fail(e, calls) ==
    /\ raised' = Some(e)
    /\ result' = Some(FailedResult(e, calls))
    /\ pc' = "done"

_prepare_job ==
    /\ pc = "prepare"
    /\ \/ /\ raw_estimate_text' = "text"
          /\ pc' = "extraction"
          /\ UNCHANGED <<result, raised>>
       \/ /\ \E e \in Errors : Fail(e, llm_call_count)
          /\ UNCHANGED raw_estimate_text
    /\ UNCHANGED <<jobVars, llm_call_count, agent_rerun_counts, extractVars,
                   loopVars, loopObs, stage_runs, call_attempts, stage_output, unitVars,
                   vision_evidence,
                   estimate_interpretation, gap_analysis, supplement_strategy,
                   review_result, review_cycle_count>>

\* The photos of batch b enter _run_vision_with_retry and each runs up to its
\* first model call; `charged` is the counter before.
StartBatch(b, charged) ==
    /\ photo_pc' = [p \in 1..nPhotos |->
                      IF p \in Batch(b, nPhotos) THEN "calling" ELSE photo_pc[p]]
    /\ llm_call_count' = charged + Cardinality(Batch(b, nPhotos))
                                   * _get_framework_llm_calls(vision_framework_name)

\* _run_extraction_phase up to its first suspension: the estimate task and
\* the first batch are started; with no photos the loop body never runs.
_run_extraction_phase ==
    /\ pc = "extraction"
    /\ estimate_task' = "running"
    /\ batch_idx' = 0
    /\ IF total_batches(nPhotos) > 0
       THEN /\ StartBatch(0, llm_call_count
                   + _get_estimate_framework_llm_calls(estimate_framework_name))
            /\ pc' = "vision_batches"
            /\ UNCHANGED vision_evidence
       ELSE /\ llm_call_count' = llm_call_count
                   + _get_estimate_framework_llm_calls(estimate_framework_name)
            /\ vision_evidence' = all_vision_results
            /\ pc' = "await_estimate"
            /\ UNCHANGED photo_pc
    /\ UNCHANGED <<jobVars, result, agent_rerun_counts, loopVars, obsVars, unitVars,
                   photo_attempt, all_vision_results, estimate_task_value,
                   raw_estimate_text, estimate_interpretation, gap_analysis,
                   supplement_strategy, review_result, review_cycle_count>>

\* _run_vision_single returns for photo p.
VisionReturn(p) ==
    /\ pc = "vision_batches"
    /\ photo_pc[p] = "calling"
    /\ photo_pc' = [photo_pc EXCEPT ![p] = "ok"]
    /\ UNCHANGED <<jobVars, runVars, ctxVars, loopVars, obsVars, unitVars, batch_idx,
                   photo_attempt, all_vision_results, estimate_task,
                   estimate_task_value>>

\* _run_vision_single raises for photo p: back off, or give up after the
\* last attempt.
VisionRaise(p) ==
    /\ pc = "vision_batches"
    /\ photo_pc[p] = "calling"
    /\ photo_pc' = [photo_pc EXCEPT ![p] =
                      IF HasNextAttempt(photo_attempt[p], MAX_RETRIES)
                      THEN "sleeping" ELSE "failed"]
    /\ UNCHANGED <<jobVars, runVars, ctxVars, loopVars, obsVars, unitVars, batch_idx,
                   photo_attempt, all_vision_results, estimate_task,
                   estimate_task_value>>

\* The backoff of photo p ends and its next attempt starts.
VisionRetry(p) ==
    /\ pc = "vision_batches"
    /\ photo_pc[p] = "sleeping"
    /\ photo_attempt' = [photo_attempt EXCEPT ![p] = @ + 1]
    /\ photo_pc' = [photo_pc EXCEPT ![p] = "calling"]
    /\ llm_call_count' = llm_call_count
                         + _get_framework_llm_calls(vision_framework_name)
    /\ UNCHANGED <<jobVars, pc, result, agent_rerun_counts, ctxVars, loopVars,
                   obsVars, unitVars, batch_idx, all_vision_results, estimate_task,
                   estimate_task_value>>

\* The estimate task finishes (the single framework never raises).
EstimateTaskDone ==
    /\ estimate_task = "running"
    /\ \E v \in EstimateResults(JobCosts) : estimate_task_value' = Some(v)
    /\ estimate_task' = "done"
    /\ stage_runs' = [stage_runs EXCEPT !["estimate"] = @ + 1]
    /\ UNCHANGED <<jobVars, runVars, ctxVars, loopVars, loopObs, raised,
                   call_attempts, stage_output, unitVars,
                   batch_idx, photo_pc, photo_attempt, all_vision_results>>

\* asyncio.gather of the current batch returns: successes are appended in
\* batch order, then the next batch starts or the loop ends.
BatchJoin ==
    /\ pc = "vision_batches"
    /\ \A p \in Batch(batch_idx, nPhotos) : photo_pc[p] \in {"ok", "failed"}
    /\ LET okPhotos == {p \in Batch(batch_idx, nPhotos) : photo_pc[p] = "ok"}
           appended == all_vision_results \o BatchEvidence(okPhotos)
       IN /\ all_vision_results' = appended
          \* the coroutines of the batch are gone, and their locals with them
          /\ photo_attempt' = [p \in 1..nPhotos |->
                                 IF p \in Batch(batch_idx, nPhotos) THEN 0
                                 ELSE photo_attempt[p]]
          /\ IF batch_idx + 1 < total_batches(nPhotos)
             THEN /\ batch_idx' = batch_idx + 1
                  /\ StartBatch(batch_idx + 1, llm_call_count)
                  /\ UNCHANGED <<pc, vision_evidence>>
             ELSE /\ vision_evidence' = appended
                  /\ pc' = "await_estimate"
                  /\ UNCHANGED <<batch_idx, photo_pc, llm_call_count>>
    /\ UNCHANGED <<jobVars, result, agent_rerun_counts, loopVars, obsVars, unitVars,
                   estimate_task, estimate_task_value,
                   raw_estimate_text, estimate_interpretation, gap_analysis,
                   supplement_strategy, review_result, review_cycle_count>>

\* The estimate task is read without being awaited.
JoinEstimate_nowait ==
    /\ pc = "await_estimate"
    /\ estimate_interpretation' = estimate_task_value
    /\ pc' = "gap_analysis"
    /\ UNCHANGED <<jobVars, result, llm_call_count, agent_rerun_counts, extractVars,
                   loopVars, obsVars, unitVars, raw_estimate_text, vision_evidence,
                   gap_analysis, supplement_strategy, review_result, review_cycle_count>>

\* `self.context.estimate_interpretation = await estimate_task`
JoinEstimate ==
    /\ pc = "await_estimate"
    /\ estimate_task = "done"
    /\ estimate_interpretation' = estimate_task_value
    /\ pc' = "gap_analysis"
    /\ UNCHANGED <<jobVars, result, llm_call_count, agent_rerun_counts, extractVars,
                   loopVars, obsVars, unitVars, raw_estimate_text, vision_evidence,
                   gap_analysis, supplement_strategy, review_result, review_cycle_count>>

----------------------------------------------------------------------------
(* Stages, called by run() and by the reruns of the Review Loop *)

InRerun(stage) ==
    /\ pc = "feedback"
    /\ rerun_calls # <<>>
    /\ Head(rerun_calls).stage = stage

\* A stage call of _execute_rerun returns; after the last one _execute_rerun
\* returns and _process_feedback sets `changes`.
RerunCallReturns ==
    /\ rerun_calls' = Tail(rerun_calls)
    /\ cycle_events' = Observed(Append(Events, StageEvent(Head(rerun_calls))))
    /\ changes' = IF Tail(rerun_calls) = <<>> THEN TRUE ELSE changes
    /\ pc' = pc

\* A rerun of the estimate stage: the returned interpretation is not stored.
_run_estimate_interpreter ==
    /\ InRerun("estimate")
    /\ llm_call_count' = llm_call_count
                         + _get_estimate_framework_llm_calls(estimate_framework_name)
    /\ stage_runs' = [stage_runs EXCEPT !["estimate"] = @ + 1]
    /\ RerunCallReturns
    /\ UNCHANGED <<jobVars, result, agent_rerun_counts, ctxVars, extractVars,
                   sorted_reruns, loop_exit, loop_result, reruns_executed,
                   reruns_skipped, changed_cycles, raised,
                   call_attempts, stage_output, unitVars>>

_run_gap_analysis ==
    /\ pc = "gap_analysis" \/ InRerun("gap")
    /\ llm_call_count' = llm_call_count
                         + _get_gap_framework_llm_calls(gap_framework_name)
    /\ \E g \in GapResults :
          /\ gap_analysis' = Some(g)
          /\ stage_output' = [stage_output EXCEPT !.gap = Some(g)]
    /\ stage_runs' = [stage_runs EXCEPT !["gap"] = @ + 1]
    /\ IF pc = "gap_analysis"
       THEN pc' = "strategist" /\ UNCHANGED <<rerun_calls, changes, cycle_events>>
       ELSE RerunCallReturns
    /\ UNCHANGED <<jobVars, result, agent_rerun_counts, extractVars, sorted_reruns,
                   loop_exit, loop_result, reruns_executed, reruns_skipped,
                   changed_cycles, raised, call_attempts,
                   unitVars,
                   raw_estimate_text, vision_evidence, estimate_interpretation,
                   supplement_strategy, review_result, review_cycle_count>>

_run_strategist ==
    /\ pc = "strategist" \/ InRerun("strategist")
    /\ llm_call_count' = llm_call_count
                         + _get_strategist_framework_llm_calls(strategist_framework_name)
    /\ \E st \in StrategistResults(
                   [estimate_interpretation |-> estimate_interpretation,
                    target_margin |-> minimum_margin]) :
          /\ supplement_strategy' = Some(st)
          /\ stage_output' = [stage_output EXCEPT !.strategy = Some(st)]
    /\ stage_runs' = [stage_runs EXCEPT !["strategist"] = @ + 1]
    /\ IF pc = "strategist"
       THEN pc' = "review" /\ UNCHANGED <<rerun_calls, changes, cycle_events>>
       ELSE RerunCallReturns
    /\ UNCHANGED <<jobVars, result, agent_rerun_counts, extractVars, sorted_reruns,
                   loop_exit, loop_result, reruns_executed, reruns_skipped,
                   changed_cycles, raised, call_attempts,
                   unitVars,
                   raw_estimate_text, vision_evidence, estimate_interpretation,
                   gap_analysis, review_result, review_cycle_count>>

----------------------------------------------------------------------------
(* ReviewLoop.execute *)

\* The loop goes on instead of returning.
LoopReturns_continue(exit, review) ==
    /\ loop_exit' = exit
    /\ loop_result' = Some(review)
    /\ pc' = "review"

\* `return review_result` of execute(), at the named return statement.
LoopReturns(exit, review) ==
    /\ loop_exit' = exit
    /\ loop_result' = Some(review)
    /\ pc' = "report"

\* One iteration of the for loop of execute(), from the review call to the
\* return statements or to the end of the adjustment loop of
\* _process_feedback.  The review comes from the given set.
ReviewCycle(reviews) ==
    /\ pc = "review"
    /\ review_cycle_count < MAX_REVIEW_CYCLES
    /\ review_cycle_count' = review_cycle_count + 1
    /\ llm_call_count' = llm_call_count + 1
    /\ stage_runs' = [stage_runs EXCEPT !["review"] = @ + 1]
    \* _run_review awaits review_agent.run once, outside any retry loop
    /\ call_attempts' = 1
    /\ \/ \* review_agent.run raises
          /\ \E e \in Errors : Fail(e, llm_call_count + 1)
          /\ UNCHANGED <<review_result, gap_analysis, supplement_strategy,
                         stage_output, loopVars, cycle_events>>
       \/ \E r \in reviews :
            /\ review_result' = Some(ReviewHead(r))
            /\ UNCHANGED <<result, raised>>
            /\ IF CycleOutcome(r) # "feedback"
               THEN /\ LoopReturns(CycleOutcome(r), ReviewHead(r))
                    /\ UNCHANGED <<gap_analysis, supplement_strategy,
                                   stage_output, sorted_reruns, changes,
                                   rerun_calls, cycle_events>>
               ELSE LET adjusted == AdjustmentLoop(r.adjustments_requested,
                                                   Len(r.adjustments_requested),
                                                   gap_analysis, supplement_strategy)
                    IN /\ gap_analysis' = adjusted.gap
                       /\ supplement_strategy' = adjusted.strategy
                       \* setattr acts on the objects the context refers
                       \* to, which are the ones the stages returned
                       /\ stage_output' = [gap |-> adjusted.gap,
                                           strategy |-> adjusted.strategy]
                       /\ changes' = adjusted.changes
                       /\ cycle_events' =
                             Observed(AdjustmentEvents(r.adjustments_requested,
                                                       gap_analysis,
                                                       supplement_strategy)
                                      \o RequestEvents(r.reruns_requested))
                       /\ sorted_reruns' = sorted_by_priority(r.reruns_requested)
                       /\ pc' = "feedback"
                       /\ UNCHANGED <<rerun_calls, loop_exit, loop_result>>
    /\ UNCHANGED <<jobVars, agent_rerun_counts, extractVars, reruns_executed,
                   reruns_skipped, changed_cycles,
                   unitVars, raw_estimate_text, vision_evidence,
                   estimate_interpretation>>

\* The rerun loop of _process_feedback reaches its next request: it is
\* executed if the agent's budget allows, otherwise skipped.
NextRerun ==
    /\ pc = "feedback"
    /\ rerun_calls = <<>>
    /\ sorted_reruns # <<>>
    /\ LET rerun == Head(sorted_reruns)
           agent == rerun.target_agent
       IN IF _can_rerun(agent_rerun_counts, agent)
          THEN /\ agent_rerun_counts' = [agent_rerun_counts EXCEPT ![agent] = @ + 1]
               /\ reruns_executed' = [reruns_executed EXCEPT ![agent] = @ + 1]
               /\ rerun_calls' = RerunCascade(agent)
               /\ UNCHANGED reruns_skipped
          ELSE /\ reruns_skipped' = reruns_skipped + 1
               /\ UNCHANGED <<agent_rerun_counts, reruns_executed, rerun_calls>>
    /\ sorted_reruns' = Tail(sorted_reruns)
    /\ cycle_events' =
          Observed(Append(Events,
                          RerunEvent(Head(sorted_reruns),
                                     _can_rerun(agent_rerun_counts,
                                                Head(sorted_reruns).target_agent))))
    /\ UNCHANGED <<jobVars, pc, result, llm_call_count, ctxVars, extractVars,
                   changes, loop_exit, loop_result, changed_cycles, stage_runs,
                   raised, call_attempts, stage_output, unitVars>>

\* The loop goes on to the next cycle whatever _process_feedback returned.
FeedbackDone_always_continues ==
    /\ pc = "feedback"
    /\ rerun_calls = <<>>
    /\ sorted_reruns = <<>>
    /\ pc' = "review"
    /\ changed_cycles' = changed_cycles + 1
    /\ cycle_events' = Observed(<<>>)
    /\ UNCHANGED <<jobVars, result, llm_call_count, agent_rerun_counts, ctxVars,
                   extractVars, sorted_reruns, changes, rerun_calls,
                   reruns_executed, reruns_skipped, stage_runs, raised,
                   call_attempts, stage_output, unitVars, loop_exit, loop_result>>

\* _process_feedback returns: the loop goes on to the next cycle if changes
\* were made and otherwise returns the review.
FeedbackDone ==
    /\ pc = "feedback"
    /\ rerun_calls = <<>>
    /\ sorted_reruns = <<>>
    /\ IF changes
       THEN /\ pc' = "review"
            /\ changed_cycles' = changed_cycles + 1
            /\ UNCHANGED <<loop_exit, loop_result>>
       ELSE /\ LoopReturns("no_changes", review_result[1])
            /\ UNCHANGED changed_cycles
    /\ cycle_events' = Observed(<<>>)
    /\ UNCHANGED <<jobVars, result, llm_call_count, agent_rerun_counts, ctxVars,
                   extractVars, sorted_reruns, changes, rerun_calls,
                   reruns_executed, reruns_skipped, stage_runs, raised,
                   call_attempts, stage_output, unitVars>>

\* The for loop is exhausted: the synthetic result is returned.
MaxCyclesExceeded ==
    /\ pc = "review"
    /\ review_cycle_count >= MAX_REVIEW_CYCLES
    /\ LoopReturns("max_cycles", _create_max_cycles_result)
    /\ UNCHANGED <<jobVars, result, llm_call_count, agent_rerun_counts, ctxVars,
                   extractVars, sorted_reruns, changes, rerun_calls, obsVars,
                   unitVars>>

----------------------------------------------------------------------------
(* The end of run() *)

\* _generate_report and the lines of run() after it.
_generate_report ==
    /\ pc = "report"
    /\ llm_call_count' = llm_call_count + 1
    /\ stage_runs' = [stage_runs EXCEPT !["report"] = @ + 1]
    \* _generate_report awaits report_agent.run once, outside any retry loop
    /\ call_attempts' = 1
    /\ \/ \E e \in Errors : Fail(e, llm_call_count + 1)
       \/ LET flags == ResultFlags(loop_result[1])
          IN /\ result' = Some(CompletedResult(supplement_strategy,
                                               llm_call_count + 1,
                                               review_cycle_count, flags))
             /\ pc' = "done"
             /\ UNCHANGED raised
    /\ UNCHANGED <<jobVars, agent_rerun_counts, ctxVars, extractVars, loopVars,
                   loopObs, stage_output, unitVars>>

Next ==
    \/ _prepare_job
    \/ _run_extraction_phase
    \/ \E p \in 1..nPhotos : VisionReturn(p)
    \/ \E p \in 1..nPhotos : VisionRaise(p)
    \/ \E p \in 1..nPhotos : VisionRetry(p)
    \/ EstimateTaskDone
    \/ BatchJoin
    \/ JoinEstimate
    \/ _run_estimate_interpreter
    \/ _run_gap_analysis
    \/ _run_strategist
    \/ ReviewCycle(AllReviews)
    \/ NextRerun
    \/ FeedbackDone
    \/ MaxCyclesExceeded
    \/ _generate_report

Spec == Init /\ [][Next]_vars

\* Every model call and every backoff delay eventually completes.
FairSpec == Spec /\ WF_vars(Next)

----------------------------------------------------------------------------
(* The whole run with a reviewer that requests nothing: used to explore     *)
(* jobs with more than one photo batch.                                     *)

PlainReviews == ReviewResults(0, 0, 0)

InitPhotos ==
    OrchestratorInit(0..MaxPhotos) /\ RetryIdle /\ AgentIdle /\ FrameworkIdle
    /\ ApiIdle
    /\ FeedbackUnobserved

NextPhotos ==
    \/ _prepare_job
    \/ _run_extraction_phase
    \/ \E p \in 1..nPhotos : VisionReturn(p)
    \/ \E p \in 1..nPhotos : VisionRaise(p)
    \/ \E p \in 1..nPhotos : VisionRetry(p)
    \/ EstimateTaskDone
    \/ BatchJoin
    \/ JoinEstimate
    \/ _run_gap_analysis
    \/ _run_strategist
    \/ ReviewCycle(PlainReviews)
    \/ _generate_report

SpecPhotos == InitPhotos /\ [][NextPhotos]_vars

----------------------------------------------------------------------------
(* The whole run of a job without photos, its _process_feedback calls       *)
(* observed, with a reviewer that may request several reruns at once.       *)

LoopReviews == ReviewResults(MaxLoopReruns, MaxAdjustments, 0)

InitLoop ==
    /\ OrchestratorInit({0})
    /\ RetryIdle
    /\ AgentIdle
    /\ FrameworkIdle
    /\ ApiIdle
    /\ cycle_events = Some(<<>>)

NextLoop ==
    \/ _prepare_job
    \/ _run_extraction_phase
    \/ EstimateTaskDone
    \/ JoinEstimate
    \/ _run_estimate_interpreter
    \/ _run_gap_analysis
    \/ _run_strategist
    \/ ReviewCycle(LoopReviews)
    \/ NextRerun
    \/ FeedbackDone
    \/ MaxCyclesExceeded
    \/ _generate_report

SpecLoop == InitLoop /\ [][NextLoop]_vars

----------------------------------------------------------------------------
(* ReviewLoop._apply_adjustment: the body of the adjustment loop on its own *)
(*                                                                          *)
(* The loop is inside _process_feedback; of the run only the two context    *)
(* objects the adjustments act on matter, and they hold up to MaxItems      *)
(* items, ids repeated or not.                                              *)

AdjustableGaps ==
    { [gap_id |-> "G1", severity |-> "major", unpaid_work_risk |-> TRUE],
      [gap_id |-> "G1", severity |-> "minor", unpaid_work_risk |-> FALSE],
      [gap_id |-> "G2", severity |-> "minor", unpaid_work_risk |-> TRUE] }

AdjustableSupplements ==
    { [supplement_id |-> "S1", priority |-> "high"],
      [supplement_id |-> "S1", priority |-> "medium"],
      [supplement_id |-> "S2", priority |-> "high"] }

AdjustableOutputs ==
    [gap : {None} \cup
             {Some([LLMGapAnalysis EXCEPT !.scope_gaps = g]) :
                g \in SeqsUpTo(AdjustableGaps, MaxItems)},
     strategy : {None} \cup
                  {Some([LLMSupplementStrategy EXCEPT !.supplements = x]) :
                     x \in SeqsUpTo(AdjustableSupplements, MaxItems)}]

\* Adjustment objects that validate: the four target types of the schema.
AdjustmentInputs ==
    Adjustments
    \cup { [target_type |-> "evidence", target_id |-> "S1",
            field |-> "priority", suggested_value |-> "low"],
           [target_type |-> "supplement", target_id |-> "S2",
            field |-> "priority", suggested_value |-> "low"],
           [target_type |-> "gap", target_id |-> "G1",
            field |-> "no_such_field", suggested_value |-> "critical"] }

InitAdjust ==
    /\ DefaultFrameworks
    /\ pc = "feedback"
    /\ FreshRunWith({0}, AdjustableOutputs)
    /\ RetryIdle
    /\ AgentIdle
    /\ FrameworkIdle
    /\ ApiIdle
    /\ FeedbackUnobserved

\* One iteration of `for adj in review.adjustments_requested`.
ApplyAdjustment(adjustment) ==
    /\ pc = "feedback"
    /\ LET step == _apply_adjustment(adjustment, gap_analysis, supplement_strategy)
       IN /\ gap_analysis' = step.gap
          /\ supplement_strategy' = step.strategy
          /\ stage_output' = [gap |-> step.gap, strategy |-> step.strategy]
          /\ changes' = (changes \/ step.applied)
    /\ UNCHANGED <<jobVars, runVars, extractVars, raw_estimate_text,
                   vision_evidence, estimate_interpretation, review_result,
                   review_cycle_count, sorted_reruns, rerun_calls, loop_exit,
                   loop_result, loopObs, stage_runs, raised, call_attempts,
                   unitVars>>

NextAdjust == \E adjustment \in AdjustmentInputs : ApplyAdjustment(adjustment)

SpecAdjust == InitAdjust /\ [][NextAdjust]_vars

----------------------------------------------------------------------------
(* Construction: Orchestrator(job, ...) called with any framework           *)
(* selection, with or without secondary clients, and the start of run()     *)

UnknownName == "no_such_framework"

\* The constructor has been called and the secondary clients looked up.
InitConfig ==
    /\ vision_framework_name \in VISION_FRAMEWORKS \cup {UnknownName}
    /\ estimate_framework_name \in ESTIMATE_FRAMEWORKS \cup {UnknownName}
    /\ gap_framework_name \in GAP_FRAMEWORKS \cup {UnknownName}
    /\ strategist_framework_name \in STRATEGIST_FRAMEWORKS \cup {UnknownName}
    /\ secondary_vision \in BOOLEAN
    /\ secondary_text \in BOOLEAN
    /\ vision_framework = "none"
    /\ estimate_framework = "none"
    /\ gap_framework = "none"
    /\ strategist_framework = "none"
    /\ pc = "construct"
    /\ FreshRun({0})
    /\ RetryIdle
    /\ AgentIdle
    /\ FrameworkIdle
    /\ ApiIdle
    /\ FeedbackUnobserved

\* Orchestrator.__init__: the four factories are called in turn; the first
\* ValueError leaves the constructor, and no Orchestrator exists.
__init__ ==
    /\ pc = "construct"
    /\ LET v == get_framework(vision_framework_name, secondary_vision)
           e == get_estimate_framework(estimate_framework_name, secondary_text)
           g == get_gap_framework(gap_framework_name, secondary_text)
           st == get_strategist_framework(strategist_framework_name,
                                          secondary_text)
       IN /\ vision_framework' = IF v = None THEN "none" ELSE v[1]
          /\ estimate_framework' =
                IF v = None \/ e = None THEN "none" ELSE e[1]
          /\ gap_framework' =
                IF v = None \/ e = None \/ g = None THEN "none" ELSE g[1]
          /\ strategist_framework' =
                IF None \in {v, e, g, st} THEN "none" ELSE st[1]
          /\ pc' = IF None \in {v, e, g, st} THEN "config_error" ELSE "prepare"
    /\ UNCHANGED <<nPhotos, vision_framework_name, estimate_framework_name,
                   gap_framework_name, strategist_framework_name,
                   secondary_vision, secondary_text, result, llm_call_count,
                   agent_rerun_counts, ctxVars, extractVars, loopVars, obsVars,
                   unitVars>>

NextConfig ==
    \/ __init__
    \/ _prepare_job
    \/ _run_extraction_phase
    \/ EstimateTaskDone
    \/ JoinEstimate
    \/ _run_gap_analysis
    \/ _run_strategist

SpecConfig == InitConfig /\ [][NextConfig]_vars

----------------------------------------------------------------------------
(* BaseAgent.run_with_retry: one invocation *)

\* run_with_retry has entered its loop and made the first call of run().
InitRetry ==
    /\ OrchestratorInit({0})
    /\ rw_max_retries \in 1..MaxRetriesCfg
    /\ rw_retry_delay = retry_delay
    /\ rw_pc = "calling"
    /\ rw_attempt = 0
    /\ rw_last_error = None
    /\ rw_run_calls = 1
    /\ rw_sleeps = <<>>
    /\ rw_errors = <<>>
    /\ rw_outcome = None
    /\ AgentIdle
    /\ FrameworkIdle
    /\ ApiIdle
    /\ FeedbackUnobserved

\* run() returns: run_with_retry returns its value.
RunReturns ==
    /\ rw_pc = "calling"
    /\ \E v \in RetryValues : rw_outcome' = Some([kind |-> "return", value |-> v])
    /\ rw_pc' = "done"
    /\ UNCHANGED <<orchVars, agVars, fwVars, apiVars, rw_max_retries, rw_retry_delay, rw_attempt,
                   rw_last_error, rw_run_calls, rw_sleeps, rw_errors>>

\* run() raises: sleep before the next attempt, or raise after the last.
RunRaises ==
    /\ rw_pc = "calling"
    /\ \E e \in RetryErrors :
          /\ rw_last_error' = Some(e)
          /\ rw_errors' = Append(rw_errors, e)
          /\ IF HasNextAttempt(rw_attempt, rw_max_retries)
             THEN /\ rw_sleeps' = Append(rw_sleeps,
                                         BackoffDelay(rw_retry_delay, rw_attempt))
                  /\ rw_pc' = "sleeping"
                  /\ UNCHANGED rw_outcome
             ELSE /\ rw_outcome' = Some([kind |-> "raise", value |-> e])
                  /\ rw_pc' = "done"
                  /\ UNCHANGED rw_sleeps
    /\ UNCHANGED <<orchVars, agVars, fwVars, apiVars, rw_max_retries, rw_retry_delay, rw_attempt,
                   rw_run_calls>>

\* asyncio.sleep returns and the next iteration calls run().
SleepReturns ==
    /\ rw_pc = "sleeping"
    /\ rw_attempt' = rw_attempt + 1
    /\ rw_run_calls' = rw_run_calls + 1
    /\ rw_pc' = "calling"
    /\ UNCHANGED <<orchVars, agVars, fwVars, apiVars, rw_max_retries, rw_retry_delay,
                   rw_last_error, rw_sleeps, rw_errors, rw_outcome>>

NextRetry == RunReturns \/ RunRaises \/ SleepReturns

SpecRetry == InitRetry /\ [][NextRetry]_vars

----------------------------------------------------------------------------
(* A stage agent's run(): one invocation *)

AgentNames == {"vision_agent", "estimate_agent", "gap_agent",
               "supplement_agent", "review_agent", "report_agent"}

\* What the model can answer: JSON that validates against the schema, JSON
\* that does not, and text that is not JSON.
ValidResponses == {"V1", "V2", "V3"}
InvalidResponses == {"X1", "X2", "X3"}
NotJsonResponses == {"N1"}
Responses == ValidResponses \cup InvalidResponses \cup NotJsonResponses

\* BaseAgent._parse_response: "ok", or the exception it raises.
_parse_response(response) ==
    IF response \in NotJsonResponses THEN "ValueError"
    ELSE IF response \in InvalidResponses THEN "ValidationError"
    ELSE "ok"

\* The agents whose run() catches ValidationError and asks for a repair.
HasRepair(name) == name \in {"gap_agent", "supplement_agent"}

\* The first model call of run().
FirstCall(name) ==
    CASE name = "vision_agent" -> "complete_vision_structured"
      [] name \in {"estimate_agent", "gap_agent"} -> "complete_structured"
      [] name = "supplement_agent" -> "complete_with_tools"
      [] OTHER -> "complete"

\* run() has been entered and has issued its first model call.
InitAgent ==
    /\ OrchestratorInit({0})
    /\ RetryIdle
    /\ ag_name \in AgentNames
    /\ ag_pc = IF ag_name = "supplement_agent" THEN "tools_call" ELSE "call"
    /\ ag_calls = <<FirstCall(ag_name)>>
    /\ ag_responses = <<>>
    /\ ag_outcome = None
    /\ FrameworkIdle
    /\ ApiIdle
    /\ FeedbackUnobserved

AgentEnds(kind, value) ==
    /\ ag_outcome' = Some([kind |-> kind, value |-> value])
    /\ ag_pc' = "done"

\* SupplementStrategistAgent.run: complete_with_tools returns, with tool
\* calls (answered by _continue_with_tool_results) or without; either way a
\* structured completion is requested next.
ToolsCallReturns ==
    /\ ag_pc = "tools_call"
    /\ \E tool_calls \in BOOLEAN :
          ag_calls' = Append(ag_calls,
                             IF tool_calls THEN "_continue_with_tool_results"
                             ELSE "complete_structured")
    /\ ag_pc' = "call"
    /\ UNCHANGED <<orchVars, rwVars, fwVars, apiVars, ag_name, ag_responses, ag_outcome>>

\* The model call whose response is parsed returns.
CallReturns ==
    /\ ag_pc = "call"
    /\ \E r \in Responses :
          /\ ag_responses' = Append(ag_responses, r)
          /\ IF ag_name = "report_agent"
             THEN \* the response is the report: nothing is parsed
                  AgentEnds("return", r) /\ UNCHANGED ag_calls
             ELSE IF _parse_response(r) = "ok"
             THEN AgentEnds("return", r) /\ UNCHANGED ag_calls
             ELSE IF _parse_response(r) = "ValidationError" /\ HasRepair(ag_name)
             THEN /\ ag_calls' = Append(ag_calls, "repair")
                  /\ ag_pc' = "repair"
                  /\ UNCHANGED ag_outcome
             ELSE AgentEnds("raise", _parse_response(r)) /\ UNCHANGED ag_calls
    /\ UNCHANGED <<orchVars, rwVars, fwVars, apiVars, ag_name>>

\* A model call raises: run() logs and re-raises.
CallRaises ==
    /\ ag_pc \in {"tools_call", "call", "repair"}
    /\ AgentEnds("raise", "LLMError")
    /\ UNCHANGED <<orchVars, rwVars, fwVars, apiVars, ag_name, ag_calls, ag_responses>>

\* The repair call returns: the repaired response is parsed, and whatever
\* that raises leaves run().
RepairReturns ==
    /\ ag_pc = "repair"
    /\ \E r \in Responses :
          /\ ag_responses' = Append(ag_responses, r)
          /\ IF _parse_response(r) = "ok"
             THEN AgentEnds("return", r)
             ELSE AgentEnds("raise", _parse_response(r))
    /\ UNCHANGED <<orchVars, rwVars, fwVars, apiVars, ag_name, ag_calls>>

NextAgent == ToolsCallReturns \/ CallReturns \/ CallRaises \/ RepairReturns

SpecAgent == InitAgent /\ [][NextAgent]_vars

----------------------------------------------------------------------------
(* Frameworks: results of one model and the merge algorithms                *)
(*                                                                          *)
(* Confidences, severity scores and margins are hundredths (0.9 is 90);     *)
(* money is whole dollars.  Of an item only the fields the merges compute   *)
(* with are kept: its id, what its key is made of, its confidence and its   *)
(* severity or value.                                                       *)

\* str.lower().strip() of the descriptions the models use.
Normalize(description) ==
    CASE description = "Ridge Cap" -> "ridge cap"
      [] description = " ridge cap" -> "ridge cap"
      [] description = "Drip Edge" -> "drip edge"
      [] OTHER -> description

\* Sum of f over its (finite) domain.
RECURSIVE SumOver(_)
SumOver(f) ==
    IF DOMAIN f = {} THEN 0
    ELSE LET i == CHOOSE x \in DOMAIN f : TRUE
         IN f[i] + SumOver([j \in DOMAIN f \ {i} |-> f[j]])

\* The elements of a sequence of sequences, in order.
RECURSIVE Flatten(_)
Flatten(ss) == IF ss = <<>> THEN <<>> ELSE Head(ss) \o Flatten(Tail(ss))

\* Iteration order of a dict filled from a sequence of keys: the positions
\* at which a key occurs for the first time, ascending.
InsertionOrder(keys) ==
    Ascending({i \in DOMAIN keys : \A j \in 1..(i - 1) : keys[j] # keys[i]})

\* The items of a sequence that carry the key found at position i.
GroupOf(items, keys, i) ==
    SelectSeq([j \in DOMAIN items |-> [item |-> items[j], key |-> keys[j]]],
              LAMBDA x : x.key = keys[i])

\* max(items, key=confidence): the first item of greatest confidence.
BestByConfidence(items) ==
    items[FirstOf({i \in DOMAIN items :
                     \A j \in DOMAIN items :
                        items[j].confidence <= items[i].confidence})]

----------------------------------------------------------------------------
(* Gap frameworks *)

ScopeGaps ==
    { [gap_id |-> "G1", category |-> "missing_line_item",
       description |-> "Ridge Cap", severity |-> "major",
       confidence |-> 90, unpaid_work_risk |-> TRUE],
      [gap_id |-> "G2", category |-> "missing_line_item",
       description |-> " ridge cap", severity |-> "minor",
       confidence |-> 90, unpaid_work_risk |-> FALSE],
      [gap_id |-> "G3", category |-> "missing_code_item",
       description |-> "Drip Edge", severity |-> "critical",
       confidence |-> 50, unpaid_work_risk |-> TRUE] }

CoverageSummary(gaps) ==
    [critical_gaps |-> Cardinality({i \in DOMAIN gaps : gaps[i].severity = "critical"}),
     major_gaps |-> Cardinality({i \in DOMAIN gaps : gaps[i].severity = "major"}),
     minor_gaps |-> Cardinality({i \in DOMAIN gaps : gaps[i].severity = "minor"}),
     total_unpaid_risk_items |->
        Cardinality({i \in DOMAIN gaps : gaps[i].unpaid_work_risk})]

GapAnalysis(gaps) ==
    [scope_gaps |-> gaps, coverage_summary |-> CoverageSummary(gaps)]

_gap_key(gap) == <<gap.category, Normalize(gap.description)>>

GapKeys(gaps) == [i \in DOMAIN gaps |-> _gap_key(gaps[i])]

_merge_gap(gaps) ==
    LET best == BestByConfidence(gaps)
        total == SumOver([i \in DOMAIN gaps |-> gaps[i].confidence])
    IN [gap_id |-> best.gap_id,
        category |-> best.category,
        description |-> best.description,
        severity |-> best.severity,
        confidence |-> Min(100, (total * 11) \div (Len(gaps) * 10)),
        unpaid_work_risk |-> \E i \in DOMAIN gaps : gaps[i].unpaid_work_risk]

\* The primary's analysis wins whenever it has a gap.
GapConsensus_final_merge_primary_first(a, b) ==
    IF a.scope_gaps # <<>> THEN a ELSE b

GapConsensus_final_merge(a, b) ==
    LET all == a.scope_gaps \o b.scope_gaps
        order == InsertionOrder(GapKeys(all))
        \* what the loop appends for the key found at position i
        Kept(i) ==
            LET group == GroupOf(all, GapKeys(all), i)
                gaps == [j \in DOMAIN group |-> group[j].item]
            IN IF Len(gaps) >= 2 THEN <<_merge_gap(gaps)>>
               ELSE IF gaps[1].confidence >= 70 THEN <<gaps[1]>>
               ELSE <<>>
    IN GapAnalysis(Flatten([n \in DOMAIN order |-> Kept(order[n])]))

\* Whether _find_disagreements returns a non-empty list: a key found on one
\* side only, or a gap of a whose first counterpart in b differs in severity.
GapConsensus_find_disagreements(a, b) ==
    LET ka == GapKeys(a.scope_gaps)
        kb == GapKeys(b.scope_gaps)
        a_gap_keys == {ka[i] : i \in DOMAIN ka}
        b_gap_keys == {kb[i] : i \in DOMAIN kb}
    IN {[type |-> "only_in_primary", key |-> k] : k \in a_gap_keys \ b_gap_keys}
       \cup {[type |-> "only_in_secondary", key |-> k] : k \in b_gap_keys \ a_gap_keys}
       \cup {[type |-> "severity_mismatch", key |-> ka[i]] :
                i \in {i \in DOMAIN ka :
                         /\ ka[i] \in b_gap_keys
                         /\ a.scope_gaps[i].severity #
                              b.scope_gaps[FirstOf({j \in DOMAIN kb : kb[j] = ka[i]})]
                                 .severity}}

\* A debate answer: gap ids to add from the other side, gap ids to remove,
\* and new severities by gap id.
GapPatches ==
    { [add_gaps |-> {"G1", "G2", "G3"}, remove_gaps |-> {},
       severity_changes |-> <<>>],
      [add_gaps |-> {}, remove_gaps |-> {"G2", "G3"},
       severity_changes |-> <<>>],
      [add_gaps |-> {}, remove_gaps |-> {},
       severity_changes |-> [g \in {"G2"} |-> "major"]],
      [add_gaps |-> {"G3", "G7"}, remove_gaps |-> {},
       severity_changes |-> [g \in {"G3"} |-> "minor"]] }

\* Every add entry creates a gap of its own.
GapConsensus_apply_adjustments_fabricates(own, other, adjustments) ==
    GapAnalysis(own.scope_gaps
                \o [i \in 1..Cardinality(adjustments.add_gaps) |->
                      [gap_id |-> "NEW", category |-> "missing_line_item",
                       description |-> "from the patch", severity |-> "minor",
                       confidence |-> 50, unpaid_work_risk |-> FALSE]])

GapConsensus_apply_adjustments(own, other, adjustments) ==
    LET kept == SelectSeq(own.scope_gaps,
                          LAMBDA g : g.gap_id \notin adjustments.remove_gaps)
        added == SelectSeq(other.scope_gaps,
                           LAMBDA g : g.gap_id \in adjustments.add_gaps)
        new_gaps == kept \o added
        severity_changes == adjustments.severity_changes
        adjusted == [i \in DOMAIN new_gaps |->
                      IF /\ new_gaps[i].gap_id \in DOMAIN severity_changes
                         /\ severity_changes[new_gaps[i].gap_id]
                               \in {"critical", "major", "minor"}
                      THEN [new_gaps[i] EXCEPT
                               !.severity = severity_changes[new_gaps[i].gap_id]]
                      ELSE new_gaps[i]]
    IN GapAnalysis(adjusted)

----------------------------------------------------------------------------
(* Strategist frameworks *)

SupplementProposals ==
    { [supplement_id |-> "S1", type |-> "new_line_item",
       line_item_description |-> "Ridge Cap", estimated_value |-> 20,
       confidence |-> 90],
      [supplement_id |-> "S2", type |-> "new_line_item",
       line_item_description |-> " ridge cap", estimated_value |-> 40,
       confidence |-> 90],
      [supplement_id |-> "S3", type |-> "code_upgrade",
       line_item_description |-> "Drip Edge", estimated_value |-> 20,
       confidence |-> 50] }

TotalValue(supplements) ==
    SumOver([i \in DOMAIN supplements |-> supplements[i].estimated_value])

\* The margin analysis the code computes from an original estimate, the
\* costs, the margin before supplements, the supplements and the target.
MarginAnalysis(original_estimate, total_costs, current_margin, supplements, target) ==
    LET new_total == original_estimate + TotalValue(supplements)
        projected_margin == Margin(new_total, total_costs)
    IN [original_estimate |-> original_estimate,
        total_costs |-> total_costs,
        current_margin |-> current_margin,
        proposed_supplement_total |-> TotalValue(supplements),
        new_estimate_total |-> new_total,
        projected_margin |-> projected_margin,
        target_margin |-> target,
        target_achieved |-> projected_margin >= target]

_item_key(item) == <<item.type, Normalize(item.line_item_description)>>

ItemKeys(supplements) == [i \in DOMAIN supplements |-> _item_key(supplements[i])]

\* {_item_key(s): s for s in supplements}: per key the last item carrying it.
ItemsByKey(supplements) ==
    LET keys == ItemKeys(supplements)
    IN [k \in {keys[i] : i \in DOMAIN keys} |->
          supplements[CHOOSE i \in DOMAIN keys :
                         /\ keys[i] = k
                         /\ \A j \in DOMAIN keys : keys[j] = k => j <= i]]

_merge_supplement(supps) ==
    LET best == BestByConfidence(supps)
        total == SumOver([i \in DOMAIN supps |-> supps[i].confidence])
    IN [supplement_id |-> best.supplement_id,
        type |-> best.type,
        line_item_description |-> best.line_item_description,
        estimated_value |-> TotalValue(supps) \div Len(supps),
        confidence |-> Min(100, (total * 115) \div (Len(supps) * 100))]

\* The values of a finite set of integers, greatest first.
RECURSIVE Descending(_)
Descending(S) ==
    IF S = {} THEN <<>>
    ELSE LET m == CHOOSE x \in S : \A y \in S : y <= x
         IN <<m>> \o Descending(S \ {m})

\* list.sort(key=estimated_value, reverse=True): stable.
SortByValueDescending(supplements) ==
    LET values == Descending({supplements[i].estimated_value :
                                i \in DOMAIN supplements})
    IN Flatten([n \in DOMAIN values |->
                  SelectSeq(supplements,
                            LAMBDA x : x.estimated_value = values[n])])

\* The margin analysis of the primary is copied forward.
StrategistConsensus_final_merge_stale_margin(a, b) ==
    LET all == a.supplements \o b.supplements
        order == InsertionOrder(ItemKeys(all))
        Kept(i) ==
            LET group == GroupOf(all, ItemKeys(all), i)
                supps == [j \in DOMAIN group |-> group[j].item]
            IN IF Len(supps) >= 2 THEN <<_merge_supplement(supps)>>
               ELSE IF supps[1].confidence >= 60 THEN <<supps[1]>>
               ELSE <<>>
    IN [supplements |->
           SortByValueDescending(Flatten([n \in DOMAIN order |-> Kept(order[n])])),
        margin_analysis |-> a.margin_analysis]

StrategistConsensus_final_merge(a, b) ==
    LET all == a.supplements \o b.supplements
        order == InsertionOrder(ItemKeys(all))
        \* what the loop appends for the key found at position i
        Kept(i) ==
            LET group == GroupOf(all, ItemKeys(all), i)
                supps == [j \in DOMAIN group |-> group[j].item]
            IN IF Len(supps) >= 2 THEN <<_merge_supplement(supps)>>
               ELSE IF supps[1].confidence >= 60 THEN <<supps[1]>>
               ELSE <<>>
        merged_supplements ==
            SortByValueDescending(Flatten([n \in DOMAIN order |-> Kept(order[n])]))
        avg_original == (a.margin_analysis.original_estimate
                         + b.margin_analysis.original_estimate) \div 2
        avg_costs == (a.margin_analysis.total_costs
                      + b.margin_analysis.total_costs) \div 2
    IN [supplements |-> merged_supplements,
        margin_analysis |-> MarginAnalysis(avg_original, avg_costs,
                                           a.margin_analysis.current_margin,
                                           merged_supplements,
                                           a.margin_analysis.target_margin)]

AbsDiff(x, y) == IF x >= y THEN x - y ELSE y - x

\* The list _find_disagreements returns, as a set.  A price disagreement is
\* a difference of more than 0.20 of the average of the two values.
StrategistConsensus_find_disagreements(a, b) ==
    LET a_items_by_desc == ItemsByKey(a.supplements)
        b_items_by_desc == ItemsByKey(b.supplements)
        only_a == DOMAIN a_items_by_desc \ DOMAIN b_items_by_desc
        only_b == DOMAIN b_items_by_desc \ DOMAIN a_items_by_desc
    IN {[type |-> "only_in_primary", key |-> k] : k \in only_a}
       \cup {[type |-> "only_in_secondary", key |-> k] : k \in only_b}
       \cup {[type |-> "price_disagreement", key |-> k] :
                k \in {k \in DOMAIN a_items_by_desc \cap DOMAIN b_items_by_desc :
                         LET va == a_items_by_desc[k].estimated_value
                             vb == b_items_by_desc[k].estimated_value
                         IN /\ va + vb > 0
                            /\ AbsDiff(va, vb) * 10 > va + vb}}

\* A debate answer: descriptions of items to take over from the other side,
\* keys to remove, and new values by key.
StrategistPatches ==
    { [add_items |-> <<"ridge cap", "drip edge">>, remove_items |-> {},
       price_changes |-> <<>>],
      [add_items |-> <<>>, remove_items |-> {<<"code_upgrade", "drip edge">>},
       price_changes |-> <<>>],
      [add_items |-> <<>>, remove_items |-> {},
       price_changes |-> [k \in {<<"new_line_item", "ridge cap">>} |-> 30]],
      [add_items |-> <<"drip edge", "gutter apron">>, remove_items |-> {},
       price_changes |-> [k \in {<<"code_upgrade", "drip edge">>} |-> 30]] }

StrategistConsensus_apply_adjustments(own, other, adjustments) ==
    LET kept == SelectSeq(own.supplements,
                          LAMBDA x : _item_key(x) \notin adjustments.remove_items)
        keys == ItemKeys(other.supplements)
        order == InsertionOrder(keys)
        other_by_key == ItemsByKey(other.supplements)
        \* the item an add_items entry selects: the first, in the order of
        \* other_by_key, whose lower-cased description contains it
        AddedItem(description) ==
            LET hits == {n \in DOMAIN order :
                           Normalize(other_by_key[keys[order[n]]]
                                        .line_item_description) = description}
            IN IF hits = {} THEN <<>>
               ELSE <<other_by_key[keys[order[FirstOf(hits)]]]>>
        added == Flatten([n \in DOMAIN adjustments.add_items |->
                            AddedItem(adjustments.add_items[n])])
        new_supplements == kept \o added
        price_changes == adjustments.price_changes
        repriced == [i \in DOMAIN new_supplements |->
                       IF _item_key(new_supplements[i]) \in DOMAIN price_changes
                       THEN [new_supplements[i] EXCEPT
                                !.estimated_value =
                                    price_changes[_item_key(new_supplements[i])]]
                       ELSE new_supplements[i]]
        margin == own.margin_analysis
    IN [supplements |-> repriced,
        margin_analysis |-> MarginAnalysis(margin.original_estimate,
                                           margin.total_costs,
                                           margin.current_margin, repriced,
                                           margin.target_margin)]

----------------------------------------------------------------------------
(* Vision frameworks *)

Components ==
    { [component_type |-> "shingles", severity_score |-> 20,
       detection_confidence |-> 90],
      [component_type |-> "shingles", severity_score |-> 80,
       detection_confidence |-> 70],
      [component_type |-> "gutter", severity_score |-> 20,
       detection_confidence |-> 50] }

GlobalObservations == { [type |-> "hail_damage", confidence |-> 80] }

ComponentTypes(components) ==
    [i \in DOMAIN components |-> components[i].component_type]

ObservationTypes(observations) ==
    [i \in DOMAIN observations |-> observations[i].type]

\* The observations of a then b, the first of each type only.
FirstOfEachType(observations) ==
    LET order == InsertionOrder(ObservationTypes(observations))
    IN [n \in DOMAIN order |-> observations[order[n]]]

\* Position of the first unused candidate of the target's type, if any.
_find_match(target, candidates, used) ==
    LET hits == {i \in DOMAIN candidates :
                   /\ i \notin used
                   /\ candidates[i].component_type = target.component_type}
    IN IF hits = {} THEN None ELSE Some(FirstOf(hits))

_merge_component(a, b) ==
    [component_type |-> a.component_type,
     severity_score |-> (a.severity_score + b.severity_score) \div 2,
     detection_confidence |->
        Min(100, ((a.detection_confidence + b.detection_confidence) * 11) \div 20)]

\* The loop of _merge over a.components from position i on, then the
\* components of b left unused.
RECURSIVE MergeComponentsFrom(_, _, _, _)
MergeComponentsFrom(a, b, i, used_b) ==
    IF i > Len(a)
    THEN LET unused == Ascending(DOMAIN b \ used_b)
         IN [n \in DOMAIN unused |-> b[unused[n]]]
    ELSE LET match_idx == _find_match(a[i], b, used_b)
         IN IF match_idx # None
            THEN <<_merge_component(a[i], b[match_idx[1]])>>
                 \o MergeComponentsFrom(a, b, i + 1, used_b \cup {match_idx[1]})
            ELSE <<a[i]>> \o MergeComponentsFrom(a, b, i + 1, used_b)

ParallelAggregate_merge(a, b) ==
    [components |-> MergeComponentsFrom(a.components, b.components, 1, {}),
     global_observations |->
        FirstOfEachType(a.global_observations \o b.global_observations)]

ConsensusDebate_find_disagreements(a, b) ==
    LET ta == ComponentTypes(a.components)
        tb == ComponentTypes(b.components)
        a_types == {ta[i] : i \in DOMAIN ta}
        b_types == {tb[i] : i \in DOMAIN tb}
    IN {[type |-> "missing_in_b", component |-> t] : t \in a_types \ b_types}
       \cup {[type |-> "missing_in_a", component |-> t] : t \in b_types \ a_types}
       \cup {[type |-> "severity_mismatch", component |-> ta[p[1]]] :
                p \in {p \in (DOMAIN ta) \X (DOMAIN tb) :
                         /\ ta[p[1]] = tb[p[2]]
                         /\ AbsDiff(a.components[p[1]].severity_score,
                                    b.components[p[2]].severity_score) > 30}}

\* A debate answer: new severity scores by component type.
VisionPatches ==
    { [severity_adjustments |-> [t \in {"shingles"} |-> 50]],
      [severity_adjustments |-> [t \in {"shingles"} |-> 80]] }

ConsensusDebate_apply_adjustments(evidence, adjustments) ==
    LET severity_adj == adjustments.severity_adjustments
        comps == evidence.components
    IN [components |->
           [i \in DOMAIN comps |->
              IF comps[i].component_type \in DOMAIN severity_adj
              THEN [comps[i] EXCEPT
                       !.severity_score = severity_adj[comps[i].component_type]]
              ELSE comps[i]],
        global_observations |-> evidence.global_observations]

ConsensusDebate_final_merge(a, b) ==
    LET all == a.components \o b.components
        order == InsertionOrder(ComponentTypes(all))
        \* what the loop appends for the type found at position i
        Kept(i) ==
            LET group == GroupOf(all, ComponentTypes(all), i)
                comps == [j \in DOMAIN group |-> group[j].item]
                max_confidence ==
                    CHOOSE c \in {comps[j].detection_confidence : j \in DOMAIN comps} :
                        \A j \in DOMAIN comps : comps[j].detection_confidence <= c
            IN IF Len(comps) = 1 THEN comps[1]
               ELSE [component_type |-> comps[1].component_type,
                     severity_score |->
                        SumOver([j \in DOMAIN comps |-> comps[j].severity_score])
                           \div Len(comps),
                     detection_confidence |->
                        Min(100, (max_confidence * 105) \div 100)]
    IN [components |-> [n \in DOMAIN order |-> Kept(order[n])],
        global_observations |->
           FirstOfEachType(a.global_observations \o b.global_observations)]

\* results: the sequence of the valid results, two or more.
EnsembleVoting_vote_merge(results) ==
    LET all == Flatten([r \in DOMAIN results |-> results[r].components])
        all_obs == Flatten([r \in DOMAIN results |-> results[r].global_observations])
        min_votes == (Len(results) \div 2) + 1
        order == InsertionOrder(ComponentTypes(all))
        obs_order == InsertionOrder(ObservationTypes(all_obs))
        \* what the component loop appends for the type found at position i
        Kept(i) ==
            LET group == GroupOf(all, ComponentTypes(all), i)
                votes == [j \in DOMAIN group |-> group[j].item]
            IN IF Len(votes) >= min_votes
               THEN <<[component_type |-> votes[1].component_type,
                       severity_score |->
                          SumOver([j \in DOMAIN votes |-> votes[j].severity_score])
                             \div Len(votes),
                       detection_confidence |->
                          Min(100,
                              (SumOver([j \in DOMAIN votes |->
                                          votes[j].detection_confidence])
                                 * (10 + Len(votes))) \div (Len(votes) * 10))]>>
               ELSE <<>>
        \* what the observation loop appends for the type found at position i
        KeptObs(i) ==
            LET group == GroupOf(all_obs, ObservationTypes(all_obs), i)
                votes == [j \in DOMAIN group |-> group[j].item]
            IN IF Len(votes) >= min_votes THEN <<BestByConfidence(votes)>> ELSE <<>>
    IN [components |-> Flatten([n \in DOMAIN order |-> Kept(order[n])]),
        global_observations |->
           Flatten([n \in DOMAIN obs_order |-> KeptObs(obs_order[n])])]

----------------------------------------------------------------------------
(* Estimate frameworks *)

LineItems ==
    { [line_id |-> "L1", description |-> "Ridge Cap", total |-> 20],
      [line_id |-> "L2", description |-> " ridge cap", total |-> 40],
      [line_id |-> "L3", description |-> "Drip Edge", total |-> 20] }

\* len() of the descriptions the models use.
DescriptionLength(description) ==
    CASE description = "Ridge Cap" -> 9
      [] description = " ridge cap" -> 10
      [] description = "Drip Edge" -> 9
      [] OTHER -> 0

_normalize_desc(desc) == Normalize(desc)

\* {_normalize_desc(item.description): item for item in line_items}
LineItemsByDesc(line_items) ==
    LET keys == [i \in DOMAIN line_items |-> _normalize_desc(line_items[i].description)]
    IN [k \in {keys[i] : i \in DOMAIN keys} |->
          line_items[CHOOSE i \in DOMAIN keys :
                        /\ keys[i] = k
                        /\ \A j \in DOMAIN keys : keys[j] = k => j <= i]]

_merge_line_item(a, b) ==
    [line_id |-> a.line_id,
     description |-> IF DescriptionLength(a.description)
                          >= DescriptionLength(b.description)
                     THEN a.description ELSE b.description,
     total |-> (a.total + b.total) \div 2]

\* The orders in which a Python set of these keys can be iterated.
IterationOrders(S) ==
    {q \in [1..Cardinality(S) -> S] :
        \A i, j \in DOMAIN q : i # j => q[i] # q[j]}

\* all_descs is a set, iterated in the order `order`.
_merge_estimates(a, b, order) ==
    LET a_items_by_desc == LineItemsByDesc(a.line_items)
        b_items_by_desc == LineItemsByDesc(b.line_items)
    IN [line_items |->
           [n \in DOMAIN order |->
              IF /\ order[n] \in DOMAIN a_items_by_desc
                 /\ order[n] \in DOMAIN b_items_by_desc
              THEN _merge_line_item(a_items_by_desc[order[n]],
                                    b_items_by_desc[order[n]])
              ELSE IF order[n] \in DOMAIN a_items_by_desc
              THEN a_items_by_desc[order[n]]
              ELSE b_items_by_desc[order[n]]],
        parsing_confidence |->
           Min(100, ((a.parsing_confidence + b.parsing_confidence) * 11) \div 20),
        financials |->
           [original_estimate_total |->
               (a.financials.original_estimate_total
                + b.financials.original_estimate_total) \div 2,
            actual_costs |-> a.financials.actual_costs]]

\* The set all_descs of _merge_estimates.
AllDescs(a, b) ==
    DOMAIN LineItemsByDesc(a.line_items) \cup DOMAIN LineItemsByDesc(b.line_items)

----------------------------------------------------------------------------
(* A framework's analyze(): one invocation *)

Frameworks ==
    {[stage |-> "vision", name |-> n] : n \in VISION_FRAMEWORKS}
    \cup {[stage |-> "estimate", name |-> n] : n \in ESTIMATE_FRAMEWORKS}
    \cup {[stage |-> "gap", name |-> n] : n \in GAP_FRAMEWORKS}
    \cup {[stage |-> "strategist", name |-> n] : n \in STRATEGIST_FRAMEWORKS}

\* The agents analyze() calls.
NumModels(kind) == IF kind.name \in {"single_model", "single"} THEN 1 ELSE 2

\* Every framework retries.
Retrying_all(kind) == kind \in Frameworks

\* Text frameworks call agent.run_with_retry, vision frameworks agent.run.
Retrying(kind) == kind.stage # "vision"

\* self.rounds as the factories set it.
Rounds(kind) == IF kind.stage = "vision" THEN 3 ELSE 2

\* The context handed to analyze(), as far as a fallback reads it (Optional).
Contexts(stage) ==
    CASE stage = "estimate" -> {Some(JobCosts)}
      [] stage = "strategist" ->
            {Some([estimate_interpretation |-> e, target_margin |-> minimum_margin]) :
               e \in {None, Some(LLMEstimate),
                      Some([LLMEstimate EXCEPT !.financials.actual_costs.total = 60]),
                      Some(create_fallback_estimate(JobCosts))}}
      [] OTHER -> {None}

\* What one model can answer in a stage.
ModelResults(stage) ==
    CASE stage = "vision" ->
            {[components |-> c, global_observations |-> o] :
               c \in SeqsUpTo(Components, MaxItems),
               o \in SeqsUpTo(GlobalObservations, 1)}
      [] stage = "estimate" ->
            {[LLMEstimate EXCEPT !.line_items = l, !.parsing_confidence = 90] :
               l \in SeqsUpTo(LineItems, MaxItems)}
      [] stage = "gap" -> {GapAnalysis(g) : g \in SeqsUpTo(ScopeGaps, MaxItems)}
      [] stage = "strategist" ->
            {[supplements |-> x,
              margin_analysis |-> MarginAnalysis(100, 80, 20, x, minimum_margin)] :
               x \in SeqsUpTo(SupplementProposals, MaxItems)}

Fallback(stage, context) ==
    CASE stage = "estimate" -> create_fallback_estimate(context[1])
      [] stage = "gap" -> create_fallback_gap_analysis
      [] stage = "strategist" -> create_fallback_supplement_strategy(context[1])

_find_disagreements(stage, a, b) ==
    CASE stage = "vision" -> ConsensusDebate_find_disagreements(a, b)
      [] stage = "gap" -> GapConsensus_find_disagreements(a, b)
      [] stage = "strategist" -> StrategistConsensus_find_disagreements(a, b)

_final_merge(stage, a, b) ==
    CASE stage = "vision" -> ConsensusDebate_final_merge(a, b)
      [] stage = "gap" -> GapConsensus_final_merge(a, b)
      [] stage = "strategist" -> StrategistConsensus_final_merge(a, b)

\* The JSON answers of a debate call that parse.
Patches(stage) ==
    CASE stage = "vision" -> VisionPatches
      [] stage = "gap" -> GapPatches
      [] stage = "strategist" -> StrategistPatches

_apply_adjustments(stage, own, other, adjustments) ==
    CASE stage = "vision" -> ConsensusDebate_apply_adjustments(own, adjustments)
      [] stage = "gap" -> GapConsensus_apply_adjustments(own, other, adjustments)
      [] stage = "strategist" ->
            StrategistConsensus_apply_adjustments(own, other, adjustments)

\* A side whose re-prompt failed takes over the other side's result.
Debated_takes_other(stage, own, other, answer) ==
    IF answer = None THEN other
    ELSE _apply_adjustments(stage, own, other, answer[1])

\* One side of _debate_round: the answer (Optional; None when the call or
\* json.loads raised, which the except clause swallows) applied to `own`.
Debated(stage, own, other, answer) ==
    IF answer = None THEN own
    ELSE _apply_adjustments(stage, own, other, answer[1])

RunningTask == [st |-> "running", attempt |-> 0, value |-> None, error |-> None]

InitFrameworks ==
    /\ OrchestratorInit({0})
    /\ RetryIdle
    /\ AgentIdle
    /\ ApiIdle
    /\ FeedbackUnobserved
    /\ fw_kind \in Frameworks
    /\ fw_context \in Contexts(fw_kind.stage)
    /\ fw_tasks = [i \in 1..NumModels(fw_kind) |-> RunningTask]
    /\ fw_pc = "gather"
    /\ fw_a = None
    /\ fw_b = None
    /\ fw_round = 0
    /\ fw_outcome = None
    /\ fw_answers = NoAnswers

\* The agent call of model i returns a result.
TaskReturns(i) ==
    /\ fw_pc = "gather"
    /\ i \in DOMAIN fw_tasks
    /\ fw_tasks[i].st = "running"
    /\ \E v \in ModelResults(fw_kind.stage) :
          fw_tasks' = [fw_tasks EXCEPT
                          ![i] = [st |-> "ok", attempt |-> 0,
                                  value |-> Some(v), error |-> None]]
    /\ UNCHANGED <<orchVars, rwVars, agVars, apiVars, fw_answers, fw_kind, fw_context, fw_pc, fw_a,
                   fw_b, fw_round, fw_outcome>>

\* An attempt of model i raises: run_with_retry goes on to the next attempt
\* while there is one, a plain run() has none.
TaskRaises(i) ==
    /\ fw_pc = "gather"
    /\ i \in DOMAIN fw_tasks
    /\ fw_tasks[i].st = "running"
    /\ \E e \in Errors :
          fw_tasks' = [fw_tasks EXCEPT
                          ![i] = IF /\ Retrying(fw_kind)
                                    /\ HasNextAttempt(@.attempt, max_retries)
                                 THEN [@ EXCEPT !.attempt = @ + 1]
                                 ELSE [@ EXCEPT !.st = "raised",
                                                !.error = Some(e)]]
    /\ UNCHANGED <<orchVars, rwVars, agVars, apiVars, fw_answers, fw_kind, fw_context, fw_pc, fw_a,
                   fw_b, fw_round, fw_outcome>>

\* The gather is over with the first outcome.
Gathered_any == \E i \in DOMAIN fw_tasks : fw_tasks[i].st # "running"

\* asyncio.gather(..., return_exceptions=True) has every outcome.
Gathered == \A i \in DOMAIN fw_tasks : fw_tasks[i].st # "running"

primary_ok == fw_tasks[1].st = "ok"
secondary_ok == fw_tasks[2].st = "ok"

AnalyzeReturns(value, path) ==
    /\ fw_outcome' = Some([kind |-> "return", value |-> Some(value),
                            error |-> None, path |-> path])
    /\ fw_pc' = "done"

AnalyzeRaises(e, path) ==
    /\ fw_outcome' = Some([kind |-> "raise", value |-> None,
                            error |-> Some(e), path |-> path])
    /\ fw_pc' = "done"

\* SingleModelFramework.analyze: `return await self.agent.run(context)`.
SingleModelAnalyze ==
    /\ fw_pc = "gather" /\ Gathered
    /\ fw_kind = [stage |-> "vision", name |-> "single_model"]
    /\ IF primary_ok
       THEN AnalyzeReturns(fw_tasks[1].value[1], "model")
       ELSE AnalyzeRaises(fw_tasks[1].error[1], "propagated")
    /\ UNCHANGED <<orchVars, rwVars, agVars, apiVars, fw_answers, fw_kind, fw_context, fw_tasks,
                   fw_a, fw_b, fw_round>>

\* Single{Estimate,Gap,Strategist}Framework.analyze: the result of
\* run_with_retry, or the fallback when it raised.
SingleAnalyze ==
    /\ fw_pc = "gather" /\ Gathered
    /\ fw_kind.stage # "vision" /\ fw_kind.name = "single"
    /\ IF primary_ok
       THEN AnalyzeReturns(fw_tasks[1].value[1], "model")
       ELSE AnalyzeReturns(Fallback(fw_kind.stage, fw_context), "fallback")
    /\ UNCHANGED <<orchVars, rwVars, agVars, apiVars, fw_answers, fw_kind, fw_context, fw_tasks,
                   fw_a, fw_b, fw_round>>

ParallelAggregateAnalyze ==
    /\ fw_pc = "gather" /\ Gathered
    /\ fw_kind = [stage |-> "vision", name |-> "parallel_aggregate"]
    /\ IF primary_ok /\ secondary_ok
       THEN AnalyzeReturns(ParallelAggregate_merge(fw_tasks[1].value[1],
                                                   fw_tasks[2].value[1]),
                           "merged")
       ELSE IF primary_ok THEN AnalyzeReturns(fw_tasks[1].value[1], "primary")
       ELSE IF secondary_ok THEN AnalyzeReturns(fw_tasks[2].value[1], "secondary")
       ELSE AnalyzeRaises("ValueError", "both_failed")
    /\ UNCHANGED <<orchVars, rwVars, agVars, apiVars, fw_answers, fw_kind, fw_context, fw_tasks,
                   fw_a, fw_b, fw_round>>

\* The sequence valid_results of EnsembleVotingFramework.analyze.
valid_results ==
    LET ok == Ascending({i \in DOMAIN fw_tasks : fw_tasks[i].st = "ok"})
    IN [n \in DOMAIN ok |-> fw_tasks[ok[n]].value[1]]

EnsembleVotingAnalyze ==
    /\ fw_pc = "gather" /\ Gathered
    /\ fw_kind = [stage |-> "vision", name |-> "ensemble_voting"]
    /\ IF valid_results = <<>>
       THEN AnalyzeRaises("ValueError", "both_failed")
       ELSE IF Len(valid_results) = 1
       THEN AnalyzeReturns(valid_results[1],
                           IF primary_ok THEN "primary" ELSE "secondary")
       ELSE AnalyzeReturns(EnsembleVoting_vote_merge(valid_results), "merged")
    /\ UNCHANGED <<orchVars, rwVars, agVars, apiVars, fw_answers, fw_kind, fw_context, fw_tasks,
                   fw_a, fw_b, fw_round>>

EstimateEnsembleAnalyze ==
    /\ fw_pc = "gather" /\ Gathered
    /\ fw_kind = [stage |-> "estimate", name |-> "ensemble"]
    /\ IF primary_ok /\ secondary_ok
       THEN \E order \in IterationOrders(AllDescs(fw_tasks[1].value[1],
                                                  fw_tasks[2].value[1])) :
               AnalyzeReturns(_merge_estimates(fw_tasks[1].value[1],
                                               fw_tasks[2].value[1], order),
                              "merged")
       ELSE IF primary_ok THEN AnalyzeReturns(fw_tasks[1].value[1], "primary")
       ELSE IF secondary_ok THEN AnalyzeReturns(fw_tasks[2].value[1], "secondary")
       ELSE AnalyzeReturns(Fallback("estimate", fw_context), "fallback")
    /\ UNCHANGED <<orchVars, rwVars, agVars, apiVars, fw_answers, fw_kind, fw_context, fw_tasks,
                   fw_a, fw_b, fw_round>>

IsConsensus(kind) == kind.name \in {"consensus_debate", "consensus"}

\* The consensus frameworks up to the debate loop: both failed, one failed,
\* or the two round-1 results enter the loop.
ConsensusAnalyze ==
    /\ fw_pc = "gather" /\ Gathered
    /\ IsConsensus(fw_kind)
    /\ IF ~ primary_ok /\ ~ secondary_ok
       THEN /\ IF fw_kind.stage = "vision"
               THEN AnalyzeRaises("ValueError", "both_failed")
               ELSE AnalyzeReturns(Fallback(fw_kind.stage, fw_context), "fallback")
            /\ UNCHANGED <<fw_a, fw_b>>
       ELSE IF ~ primary_ok
       THEN AnalyzeReturns(fw_tasks[2].value[1], "secondary") /\ UNCHANGED <<fw_a, fw_b>>
       ELSE IF ~ secondary_ok
       THEN AnalyzeReturns(fw_tasks[1].value[1], "primary") /\ UNCHANGED <<fw_a, fw_b>>
       ELSE /\ fw_a' = fw_tasks[1].value
            /\ fw_b' = fw_tasks[2].value
            /\ fw_pc' = "debate"
            /\ UNCHANGED fw_outcome
    /\ UNCHANGED <<orchVars, rwVars, agVars, apiVars, fw_answers, fw_kind, fw_context, fw_tasks,
                   fw_round>>

\* The loop without its break.
DebateGoesOn_nobreak == fw_round < Rounds(fw_kind) - 1

\* Whether the for loop has another iteration that reaches _debate_round.
DebateGoesOn ==
    /\ fw_round < Rounds(fw_kind) - 1
    /\ _find_disagreements(fw_kind.stage, fw_a[1], fw_b[1]) # {}

\* One iteration of the loop: _debate_round asks the primary, then the
\* secondary, which sees the primary as already adjusted.
_debate_round ==
    /\ fw_pc = "debate"
    /\ DebateGoesOn
    /\ \E pa, pb \in {None} \cup {Some(x) : x \in Patches(fw_kind.stage)} :
          LET primary == Debated(fw_kind.stage, fw_a[1], fw_b[1], pa)
              secondary == Debated(fw_kind.stage, fw_b[1], primary, pb)
          IN /\ fw_a' = Some(primary)
             /\ fw_b' = Some(secondary)
             /\ fw_answers' = [primary |-> pa, secondary |-> pb]
    /\ fw_round' = fw_round + 1
    /\ UNCHANGED <<orchVars, rwVars, agVars, apiVars, fw_kind, fw_context, fw_tasks,
                   fw_pc, fw_outcome>>

\* The loop is left (break or exhausted) and the final merge returned.
ConsensusFinalMerge ==
    /\ fw_pc = "debate"
    /\ ~ DebateGoesOn
    /\ AnalyzeReturns(_final_merge(fw_kind.stage, fw_a[1], fw_b[1]), "merged")
    /\ UNCHANGED <<orchVars, rwVars, agVars, apiVars, fw_answers, fw_kind, fw_context, fw_tasks,
                   fw_a, fw_b, fw_round>>

NextFrameworks ==
    \/ \E i \in 1..2 : TaskReturns(i)
    \/ \E i \in 1..2 : TaskRaises(i)
    \/ SingleModelAnalyze
    \/ SingleAnalyze
    \/ ParallelAggregateAnalyze
    \/ EnsembleVotingAnalyze
    \/ EstimateEnsembleAnalyze
    \/ ConsensusAnalyze
    \/ _debate_round
    \/ ConsensusFinalMerge

SpecFrameworks == InitFrameworks /\ [][NextFrameworks]_vars

----------------------------------------------------------------------------
(* The job API: the routes of api/routes/jobs.py over the jobs table        *)
(*                                                                          *)
(* Of a row of the jobs table the model keeps what the routes decide on:    *)
(* its status and whether its result holds the HTML and the PDF report.     *)

JobIds == {"j1", "j2"}
Formats == {"pdf", "html"}
JobStatuses == {"queued", "processing", "completed", "escalated", "failed", "approved", "rejected", "cancelled"}

\* JobStore._record_to_dict: the dict a route gets for a row.
_record_to_dict(status, html, pdf) == [status |-> status, _report_html |-> html, _report_pdf |-> pdf]

\* JobStore.create: the row is written with status queued and a result
\* that holds no report.
JobStore_create == _record_to_dict("queued", FALSE, FALSE)

\* JobStore.update on one row.  status is Optional; result_data says whether
\* the updates hold a key of the result other than the reports; html and pdf
\* say whether the updates hold a non-empty report.  update_result replaces
\* the whole result column, update_status leaves it alone, and updates
\* without a status write nothing.
JobStore_update(job, status, result_data, html, pdf) ==
    IF status = None THEN job
    ELSE IF result_data \/ html \/ pdf
         THEN _record_to_dict(status[1], html, pdf)
         ELSE [job EXCEPT !.status = status[1]]

\* What Orchestrator.run() hands to process_job: a completed result carries
\* the HTML of the report and, when the PDF could be rendered, the PDF; a
\* failed result carries neither.
RunResults ==
    {[status |-> "completed", report_html |-> TRUE, report_pdf |-> TRUE],
     [status |-> "completed", report_html |-> TRUE, report_pdf |-> FALSE],
     [status |-> "failed", report_html |-> FALSE, report_pdf |-> FALSE]}

HTTPException(route, job_id, status_code, code) == Some([route |-> route, job_id |-> job_id, status_code |-> status_code, code |-> code, content |-> None])

Response(route, job_id, status_code, content) == Some([route |-> route, job_id |-> job_id, status_code |-> status_code, code |-> "none", content |-> content])

\* The jobs table outlives the process: at start it may hold a job in any
\* status, with or without reports, left by earlier runs or by an operator.
InitApi ==
    /\ OrchestratorInit({0})
    /\ RetryIdle
    /\ AgentIdle
    /\ FrameworkIdle
    /\ FeedbackUnobserved
    /\ \E row \in {None} \cup {Some(_record_to_dict(s, h, p)) : s \in JobStatuses, h \in BOOLEAN, p \in BOOLEAN} :
          api_jobs = [j \in JobIds |-> IF j = "j1" THEN row ELSE None]
    /\ api_tasks = [j \in JobIds |-> "none"]
    /\ api_response = None

\* POST /jobs with a valid request: the row is created and process_job is
\* scheduled as a background task.
create_job(j) ==
    /\ api_jobs[j] = None
    /\ api_jobs' = [api_jobs EXCEPT ![j] = Some(JobStore_create)]
    /\ api_tasks' = [api_tasks EXCEPT ![j] = "scheduled"]
    /\ api_response' = Response("create_job", j, 202, None)
    /\ UNCHANGED <<orchVars, rwVars, agVars, fwVars>>

\* process_job up to the call of Orchestrator.run(): the row is read and set
\* to processing (the later update of the stage alone carries no status and
\* writes nothing).
ProcessJobStarts(j) ==
    /\ api_tasks[j] = "scheduled"
    /\ api_jobs' = [api_jobs EXCEPT ![j] = Some(JobStore_update(api_jobs[j][1], Some("processing"), TRUE, FALSE, FALSE))]
    /\ api_tasks' = [api_tasks EXCEPT ![j] = "running_agents"]
    /\ UNCHANGED <<orchVars, rwVars, agVars, fwVars, api_response>>

\* process_job after Orchestrator.run() returned: status, results and reports
\* are written in one update.
ProcessJobReturns(j) ==
    /\ api_tasks[j] = "running_agents"
    /\ \E r \in RunResults :
          api_jobs' = [api_jobs EXCEPT ![j] = Some(JobStore_update(api_jobs[j][1], Some(r.status), TRUE, r.report_html, r.report_pdf))]
    /\ api_tasks' = [api_tasks EXCEPT ![j] = "none"]
    /\ UNCHANGED <<orchVars, rwVars, agVars, fwVars, api_response>>

\* process_job when building the Job or reading the result raises: the
\* except branch writes status failed with the error.
ProcessJobRaises(j) ==
    /\ api_tasks[j] = "running_agents"
    /\ api_jobs' = [api_jobs EXCEPT ![j] = Some(JobStore_update(api_jobs[j][1], Some("failed"), TRUE, FALSE, FALSE))]
    /\ api_tasks' = [api_tasks EXCEPT ![j] = "none"]
    /\ UNCHANGED <<orchVars, rwVars, agVars, fwVars, api_response>>

\* GET /jobs/{job_id}/report: the response for the row read.
download_report_any_status(job_id, format) ==
    LET job == api_jobs[job_id] IN
    IF job = None THEN HTTPException("download_report", job_id, 404, "JOB_NOT_FOUND")
    ELSE IF format = "pdf"
         THEN IF ~ job[1]._report_pdf
              THEN HTTPException("download_report", job_id, 404, "REPORT_NOT_READY")
              ELSE Response("download_report", job_id, 200, Some("pdf"))
         ELSE IF ~ job[1]._report_html
              THEN HTTPException("download_report", job_id, 404, "REPORT_NOT_READY")
              ELSE Response("download_report", job_id, 200, Some("html"))

download_report(job_id, format) ==
    LET job == api_jobs[job_id] IN
    IF job = None THEN HTTPException("download_report", job_id, 404, "JOB_NOT_FOUND")
    ELSE IF job[1].status # "completed"
         THEN HTTPException("download_report", job_id, 404, "REPORT_NOT_READY")
         ELSE IF format = "pdf"
              THEN IF ~ job[1]._report_pdf
                   THEN HTTPException("download_report", job_id, 404, "REPORT_NOT_READY")
                   ELSE Response("download_report", job_id, 200, Some("pdf"))
              ELSE IF ~ job[1]._report_html
                   THEN HTTPException("download_report", job_id, 404, "REPORT_NOT_READY")
                   ELSE Response("download_report", job_id, 200, Some("html"))

DownloadReport(j, format) ==
    /\ api_response' = download_report(j, format)
    /\ UNCHANGED <<orchVars, rwVars, agVars, fwVars, api_jobs, api_tasks>>

\* POST /jobs/{job_id}/approve and /reject: only an escalated job changes.
Decide(route, j, status) ==
    IF api_jobs[j] = None
    THEN /\ api_response' = HTTPException(route, j, 404, "JOB_NOT_FOUND")
         /\ UNCHANGED api_jobs
    ELSE IF api_jobs[j][1].status # "escalated"
         THEN /\ api_response' = HTTPException(route, j, 400, "INVALID_STATE")
              /\ UNCHANGED api_jobs
         ELSE /\ api_jobs' = [api_jobs EXCEPT ![j] = Some(JobStore_update(api_jobs[j][1], Some(status), FALSE, FALSE, FALSE))]
              /\ api_response' = Response(route, j, 200, None)

approve_job(j) ==
    /\ Decide("approve_job", j, "approved")
    /\ UNCHANGED <<orchVars, rwVars, agVars, fwVars, api_tasks>>

reject_job(j) ==
    /\ Decide("reject_job", j, "rejected")
    /\ UNCHANGED <<orchVars, rwVars, agVars, fwVars, api_tasks>>

\* DELETE /jobs/{job_id}: the status becomes cancelled unless the job is
\* completed or failed; the row stays and its process_job task goes on.
cancel_job(j) ==
    /\ IF api_jobs[j] = None
       THEN /\ api_response' = HTTPException("cancel_job", j, 404, "JOB_NOT_FOUND")
            /\ UNCHANGED api_jobs
       ELSE IF api_jobs[j][1].status \in {"completed", "failed"}
            THEN /\ api_response' = HTTPException("cancel_job", j, 400, "CANNOT_CANCEL")
                 /\ UNCHANGED api_jobs
            ELSE /\ api_jobs' = [api_jobs EXCEPT ![j] = Some(JobStore_update(api_jobs[j][1], Some("cancelled"), FALSE, FALSE, FALSE))]
                 /\ api_response' = Response("cancel_job", j, 200, None)
    /\ UNCHANGED <<orchVars, rwVars, agVars, fwVars, api_tasks>>

NextApi ==
    \/ \E j \in JobIds : create_job(j)
    \/ \E j \in JobIds : ProcessJobStarts(j)
    \/ \E j \in JobIds : ProcessJobReturns(j)
    \/ \E j \in JobIds : ProcessJobRaises(j)
    \/ \E j \in JobIds, format \in Formats : DownloadReport(j, format)
    \/ \E j \in JobIds : approve_job(j)
    \/ \E j \in JobIds : reject_job(j)
    \/ \E j \in JobIds : cancel_job(j)

SpecApi == InitApi /\ [][NextApi]_vars

----------------------------------------------------------------------------
(* Properties *)

Returned == pc = "done" /\ result # None
Status == result[1].status
LoopReturned == loop_result # None
UnapprovedExits ==
    {"critical_flag", "no_actionable_feedback", "no_changes", "max_cycles"}

\* C1: across a whole run at most MAX_RERUNS_PER_AGENT reruns are executed
\* for each target agent, and a rerun request for an agent whose budget is
\* used up is skipped: the step that skips it runs no stage, raises nothing,
\* ends neither the loop nor the run.
C1_RerunBudget ==
    [][ /\ \A a \in TargetAgents : reruns_executed'[a] <= MAX_RERUNS_PER_AGENT
        /\ reruns_skipped' # reruns_skipped =>
              /\ reruns_executed[Head(sorted_reruns).target_agent]
                    = MAX_RERUNS_PER_AGENT
              /\ UNCHANGED <<pc, result, raised, loop_exit, loop_result,
                             reruns_executed, stage_runs, llm_call_count,
                             changes, rerun_calls>>
      ]_vars

\* C1 witness: a rerun request was skipped after the agent's one rerun, and
\* the run went on to complete.
C1_Witness ==
    /\ Returned /\ Status = "completed"
    /\ reruns_skipped > 0
    /\ \E a \in TargetAgents : reruns_executed[a] = MAX_RERUNS_PER_AGENT

\* C2: when the review loop ends without approval and the run returns a
\* result other than failed, the result is escalated: success = false, a
\* non-empty escalation reason, the review's human flags and partial results.
C2_EscalatedOnUnapproved ==
    (Returned /\ loop_exit \in UnapprovedExits /\ raised = None) =>
        /\ Status = "escalated"
        /\ result[1].success = FALSE
        /\ result[1].escalation_reason # None
        /\ result[1].human_flags = Some(loop_result[1].human_flags)
        /\ result[1].partial_results # None

\* C3: when an exception escapes a phase, run() returns the failed result:
\* success = false, the exception's message as escalation reason, the counter
\* as it stood, and no report, supplements, flags or partial results; and a
\* failed result is returned in no other case.
C3_FailedResult ==
    /\ raised # None =>
          /\ Returned
          /\ Status = "failed"
          /\ result[1].success = FALSE
          /\ result[1].escalation_reason = raised
          /\ result[1].llm_calls = llm_call_count
          /\ result[1].report_html = None
          /\ result[1].supplements = None
          /\ result[1].human_flags = None
          /\ result[1].partial_results = None
    /\ (result # None /\ Status = "failed") => raised # None

\* C3 witness: the report stage raised after the strategist had produced a
\* strategy and two review cycles had run.
C3_Witness ==
    /\ raised # None
    /\ Returned
    /\ stage_runs["report"] = 1
    /\ supplement_strategy # None
    /\ review_cycle_count = MAX_REVIEW_CYCLES

\* C4: provided every call and delay completes, every run eventually returns
\* a result whose status is completed, escalated or failed.
C4_RunTerminates ==
    <>(Returned /\ Status \in {"completed", "escalated", "failed"})

\* C4 witness: a run returned after two changed cycles and an executed rerun.
C4_Witness ==
    /\ Returned
    /\ changed_cycles = MAX_REVIEW_CYCLES
    /\ \E a \in TargetAgents : reruns_executed[a] > 0

SyntheticMaxCycles(review) ==
    /\ review.approved = FALSE
    /\ review.ready_for_delivery = FALSE
    /\ review.human_flags = <<[flag_id |-> "MAX_CYCLES", severity |-> "critical"]>>

\* C5: the review agent is invoked at most MAX_REVIEW_CYCLES times and
\* review_cycle_count never exceeds MAX_REVIEW_CYCLES; when every cycle that
\* ran made a change (so was rejected without a critical flag), the loop
\* returns after exactly MAX_REVIEW_CYCLES cycles, and what it returns is the
\* synthetic result: not approved, not ready, one critical flag MAX_CYCLES.
C5_MaxCycles ==
    /\ stage_runs["review"] <= MAX_REVIEW_CYCLES
    /\ review_cycle_count <= MAX_REVIEW_CYCLES
    /\ changed_cycles <= review_cycle_count
    /\ (LoopReturned /\ changed_cycles = review_cycle_count) =>
          /\ review_cycle_count = MAX_REVIEW_CYCLES
          /\ stage_runs["review"] = MAX_REVIEW_CYCLES
          /\ SyntheticMaxCycles(loop_result[1])
    /\ (LoopReturned /\ changed_cycles < review_cycle_count) =>
          loop_result = review_result

\* C5 witness: the loop returned after MAX_REVIEW_CYCLES changed cycles.
C5_Witness ==
    /\ LoopReturned
    /\ changed_cycles = MAX_REVIEW_CYCLES
    /\ loop_exit = "max_cycles"

ReviewStep ==
    /\ stage_runs'["review"] = stage_runs["review"] + 1
    /\ raised' = None

BothFlags(review) == review.approved /\ review.ready_for_delivery

OnlySupplementRerun ==
    [a \in TargetAgents |-> IF a = "supplement_agent" THEN 1 ELSE 0]

\* C7: the loop returns "approved" exactly in the step of the first review
\* that is both approved and ready, and that step changes neither the gap
\* analysis nor the strategy and executes no rerun; a review with one flag
\* only never ends the loop as approved.  When the only rerun of the run was
\* one of supplement_agent in cycle 1 and cycle 2 approves, the loop ends
\* with review_cycle_count = 2 after exactly one rerun of the strategist.
C7_ApprovedOutcome ==
    [][ /\ ReviewStep =>
            /\ BothFlags(review_result'[1]) <=> loop_exit' = "approved"
            /\ BothFlags(review_result'[1]) =>
                  /\ loop_result' = review_result'
                  /\ pc' = "report"
                  /\ UNCHANGED <<gap_analysis, supplement_strategy,
                                 agent_rerun_counts, reruns_executed,
                                 sorted_reruns, rerun_calls, changed_cycles>>
        /\ (~ ReviewStep) => (loop_exit' = "approved" <=> loop_exit = "approved")
        /\ (loop_exit' = "approved" /\ review_cycle_count' = 2
                /\ reruns_executed' = OnlySupplementRerun) =>
              /\ stage_runs'["strategist"] = 2
              /\ stage_runs'["gap"] = 1
              /\ stage_runs'["review"] = 2
      ]_vars

\* C7 witness: approved in cycle 2 after one rerun of the strategist.
C7_Witness ==
    /\ loop_exit = "approved"
    /\ review_cycle_count = 2
    /\ reruns_executed = OnlySupplementRerun
    /\ stage_runs["strategist"] = 2

CriticalFlagIn(review) ==
    \E i \in DOMAIN review.human_flags : review.human_flags[i].severity = "critical"

\* C8: a review carrying a critical flag is returned by the loop in the step
\* in which it arrives, approved or not, with no adjustment applied and no
\* rerun executed; once the loop has returned no further review runs.
C8_CriticalShortCircuit ==
    [][ /\ (ReviewStep /\ CriticalFlagIn(review_result'[1])) =>
              /\ loop_result' = review_result'
              /\ pc' = "report"
              /\ UNCHANGED <<gap_analysis, supplement_strategy,
                             agent_rerun_counts, reruns_executed, sorted_reruns,
                             rerun_calls, changed_cycles>>
        /\ LoopReturned =>
              /\ stage_runs'["review"] = stage_runs["review"]
              /\ UNCHANGED <<gap_analysis, supplement_strategy, reruns_executed,
                             loop_result, review_cycle_count>>
      ]_vars

\* C8 witness: a rejected review with a critical flag and requests for
\* changes ended the loop in cycle 1.
C8_Witness ==
    /\ LoopReturned
    /\ loop_exit = "critical_flag"
    /\ review_cycle_count = 1
    /\ CriticalFlagIn(loop_result[1])
    /\ ~ loop_result[1].approved

\* C9: run_with_retry calls run() at most max_retries times; it returns as
\* soon as a call succeeds; the k-th failure that is not the last is followed
\* by a sleep of retry_delay * k and the last failure by none; when all
\* max_retries calls failed it raises what the last call raised.
C9_RetryProtocol ==
    /\ rw_run_calls <= rw_max_retries
    /\ rw_sleeps = [k \in 1..Len(rw_sleeps) |-> rw_retry_delay * k]
    /\ rw_pc = "calling" =>
          /\ Len(rw_errors) = rw_run_calls - 1
          /\ Len(rw_sleeps) = Len(rw_errors)
    /\ rw_pc = "sleeping" =>
          /\ Len(rw_errors) = rw_run_calls
          /\ Len(rw_sleeps) = Len(rw_errors)
          /\ rw_run_calls < rw_max_retries
    /\ rw_pc = "done" =>
          /\ rw_outcome # None
          /\ rw_outcome[1].kind = "return" =>
                /\ Len(rw_errors) = rw_run_calls - 1
                /\ Len(rw_sleeps) = Len(rw_errors)
          /\ rw_outcome[1].kind = "raise" =>
                /\ rw_run_calls = rw_max_retries
                /\ Len(rw_errors) = rw_max_retries
                /\ Len(rw_sleeps) = rw_max_retries - 1
                /\ rw_outcome[1].value = rw_errors[rw_max_retries]

\* C9 witness: three calls failed with different errors and the last error
\* was raised after sleeps of 2 and 4.
C9_Witness ==
    /\ rw_pc = "done"
    /\ rw_outcome[1].kind = "raise"
    /\ rw_max_retries = max_retries
    /\ rw_errors = <<"E1", "E2", "E3">>
    /\ rw_sleeps = <<2, 4>>

OkPhotos == {p \in 1..nPhotos : photo_pc[p] = "ok"}
VisionPartOver ==
    /\ raw_estimate_text # ""
    /\ pc \notin {"extraction", "vision_batches"}
BatchJoined(p) ==
    pc # "vision_batches" \/ p <= batch_idx * PHOTO_BATCH_SIZE

\* C10: after the extraction phase vision_evidence holds exactly one evidence
\* per photo whose analysis returned, in submission order; an analysis is
\* attempted at most MAX_RETRIES times and a photo is given up only after
\* MAX_RETRIES failures; giving up on photos does not fail the job, and a job
\* without photos has an empty vision_evidence.
C10_VisionEvidence ==
    /\ VisionPartOver =>
          /\ Len(vision_evidence) = Cardinality(OkPhotos)
          /\ {vision_evidence[i].photo : i \in DOMAIN vision_evidence} = OkPhotos
          /\ \A i, j \in DOMAIN vision_evidence :
                i < j => vision_evidence[i].photo < vision_evidence[j].photo
          /\ \A p \in 1..nPhotos : photo_pc[p] \in {"ok", "failed"}
          /\ nPhotos = 0 => vision_evidence = <<>>
    /\ \A p \in 1..nPhotos :
          /\ photo_attempt[p] <= MAX_RETRIES - 1
          /\ (photo_pc[p] = "failed" /\ ~ BatchJoined(p)) =>
                photo_attempt[p] = MAX_RETRIES - 1
    /\ (result # None /\ Status = "failed") =>
          raw_estimate_text = "" \/ stage_runs["review"] >= 1

\* C10 witness: a job with two batches completed although a photo of the
\* first batch was given up; photos of both batches are in the evidence.
C10_Witness ==
    /\ Returned /\ Status = "completed"
    /\ nPhotos > PHOTO_BATCH_SIZE
    /\ photo_pc[1] = "ok" /\ photo_pc[2] = "failed"
    /\ photo_pc[nPhotos] = "ok"
    /\ Len(vision_evidence) >= 2

\* The phases of run() and the phases that can follow each.
PhaseSuccessors(p) ==
    CASE p = "prepare" -> {"extraction", "done"}
      [] p = "extraction" -> {"vision_batches", "await_estimate"}
      [] p = "vision_batches" -> {"await_estimate"}
      [] p = "await_estimate" -> {"gap_analysis"}
      [] p = "gap_analysis" -> {"strategist"}
      [] p = "strategist" -> {"review"}
      [] p = "review" -> {"feedback", "report", "done"}
      [] p = "feedback" -> {"review", "report"}
      [] p = "report" -> {"done"}
      [] OTHER -> {}

Starts(stage) == stage_runs'[stage] = stage_runs[stage] + 1

ExtractionOver ==
    /\ estimate_task = "done"
    /\ \A p \in 1..nPhotos : photo_pc[p] \in {"ok", "failed"}
    /\ vision_evidence = all_vision_results
    /\ Len(vision_evidence) = Cardinality({p \in 1..nPhotos : photo_pc[p] = "ok"})

\* C11: the phases of a run follow one another in the order prepare,
\* extraction, gap analysis, strategist, review loop, report; and a stage
\* starts only when the context fields it reads are set: the estimate stage
\* after the estimate text, the gap stage after all photo batches and the
\* estimate task have finished and estimate_interpretation is set, the
\* strategist after gap_analysis, a review after supplement_strategy, the
\* report after the review loop has returned.
C11_PhaseOrder ==
    [][ /\ pc' # pc => pc' \in PhaseSuccessors(pc)
        /\ Starts("estimate") => raw_estimate_text # ""
        /\ pc' = "gap_analysis" => estimate_interpretation' # None
        /\ Starts("gap") =>
              /\ ExtractionOver
              /\ estimate_interpretation # None
        /\ Starts("strategist") =>
              /\ gap_analysis # None
              /\ estimate_interpretation # None
        /\ Starts("review") =>
              /\ supplement_strategy # None
              /\ gap_analysis # None
              /\ stage_runs["strategist"] >= 1
        /\ Starts("report") =>
              /\ loop_result # None
              /\ stage_runs["review"] >= 1
      ]_vars

\* C11 witness: a run with a photo went through every stage and completed.
C11_Witness ==
    /\ Returned /\ Status = "completed"
    /\ nPhotos = 1
    /\ vision_evidence # <<>>
    /\ \A st \in Stages : stage_runs[st] >= 1

CountSeverity(gaps, sev) ==
    Cardinality({i \in DOMAIN gaps : gaps[i].severity = sev})

\* C14: whenever the context holds a gap analysis, the counts of its
\* coverage_summary equal the numbers of scope_gaps with severity critical,
\* major and minor and with unpaid_work_risk set.
C14_CoverageSummaryConsistent ==
    gap_analysis # None =>
        LET gaps == gap_analysis[1].scope_gaps
            summary == gap_analysis[1].coverage_summary
        IN /\ summary.critical_gaps = CountSeverity(gaps, "critical")
           /\ summary.major_gaps = CountSeverity(gaps, "major")
           /\ summary.minor_gaps = CountSeverity(gaps, "minor")
           /\ summary.total_unpaid_risk_items =
                 Cardinality({i \in DOMAIN gaps : gaps[i].unpaid_work_risk})

\* C15: whenever the context holds a supplement strategy, its margin analysis
\* has new_estimate_total = original_estimate + proposed_supplement_total and
\* target_achieved exactly when projected_margin >= target_margin.
C15_MarginAnalysisConsistent ==
    supplement_strategy # None =>
        LET margin == supplement_strategy[1].margin_analysis
        IN /\ margin.new_estimate_total =
                 margin.original_estimate + margin.proposed_supplement_total
           /\ margin.target_achieved =
                 (margin.projected_margin >= margin.target_margin)

SomeNameUnknown ==
    \/ vision_framework_name \notin VISION_FRAMEWORKS
    \/ estimate_framework_name \notin ESTIMATE_FRAMEWORKS
    \/ gap_framework_name \notin GAP_FRAMEWORKS
    \/ strategist_framework_name \notin STRATEGIST_FRAMEWORKS

\* C17: when a framework name outside its defined set is passed, the
\* constructor raises: no Orchestrator is constructed and no stage runs.
C17_UnknownNameFailsFast ==
    (SomeNameUnknown /\ pc # "construct") =>
        /\ pc = "config_error"
        /\ estimate_task = "none"
        /\ \A st \in Stages : stage_runs[st] = 0

NumRepairs == Cardinality({i \in DOMAIN ag_calls : ag_calls[i] = "repair"})

StageAgents == AgentNames \ {"report_agent"}

\* C19: in an invocation of a stage agent, a response that fails schema
\* validation is followed by exactly one repair call; the repaired response
\* is returned if it validates and the invocation raises if it does not; no
\* invocation makes more than one repair call.
C19_OneRepairRoundTrip ==
    /\ NumRepairs <= 1
    /\ (/\ ag_name \in StageAgents
        /\ ag_responses # <<>>
        /\ _parse_response(ag_responses[1]) = "ValidationError") =>
            /\ NumRepairs = 1
            /\ (ag_pc = "done" /\ Len(ag_responses) = 2) =>
                  IF _parse_response(ag_responses[2]) = "ok"
                  THEN ag_outcome = Some([kind |-> "return",
                                          value |-> ag_responses[2]])
                  ELSE ag_outcome[1].kind = "raise"

\* C18: a run fails because of a model call of the review or report stage
\* only after that call was attempted max_retries times; one failed attempt
\* does not fail the run.
C18_FailureOnlyAfterRetries ==
    (raised # None /\ call_attempts > 0) => call_attempts >= max_retries

----------------------------------------------------------------------------
(* Properties of the frameworks *)

Ended == fw_outcome # None

Outcome == fw_outcome[1]

TaskValue(i) == fw_tasks[i].value[1]

TwoModelFrameworks ==
    { [stage |-> "vision", name |-> "parallel_aggregate"],
      [stage |-> "vision", name |-> "consensus_debate"],
      [stage |-> "estimate", name |-> "ensemble"],
      [stage |-> "gap", name |-> "consensus"],
      [stage |-> "strategist", name |-> "consensus"] }

\* The merge a two-model framework returns when both models succeeded, as
\* the set of values it may be.
MergedResults ==
    CASE fw_kind.name = "parallel_aggregate" ->
            {ParallelAggregate_merge(TaskValue(1), TaskValue(2))}
      [] fw_kind.name = "ensemble" ->
            {_merge_estimates(TaskValue(1), TaskValue(2), order) :
               order \in IterationOrders(AllDescs(TaskValue(1), TaskValue(2)))}
      [] OTHER -> {_final_merge(fw_kind.stage, fw_a[1], fw_b[1])}

\* C12: a two-model framework ends only when both models' calls have ended;
\* when both succeeded it returns the merge (of the debated results where it
\* debates), when exactly one succeeded it returns that model's result as it
\* is, and when both failed a vision framework raises while an estimate, gap
\* or strategist framework returns its fallback.
C12_TwoModelOutcome ==
    fw_kind \in TwoModelFrameworks =>
        /\ (Ended \/ fw_pc = "debate") =>
              \A i \in 1..2 : fw_tasks[i].st \in {"ok", "raised"}
        /\ Ended =>
              IF primary_ok /\ secondary_ok
              THEN Outcome.kind = "return" /\ Outcome.value[1] \in MergedResults
              ELSE IF primary_ok
              THEN Outcome.kind = "return" /\ Outcome.value = fw_tasks[1].value
              ELSE IF secondary_ok
              THEN Outcome.kind = "return" /\ Outcome.value = fw_tasks[2].value
              ELSE IF fw_kind.stage = "vision"
              THEN Outcome.kind = "raise"
              ELSE /\ Outcome.kind = "return"
                   /\ Outcome.value[1] = Fallback(fw_kind.stage, fw_context)

C12_Witness ==
    /\ fw_kind = [stage |-> "gap", name |-> "consensus"]
    /\ Ended
    /\ fw_tasks[1].st = "raised"
    /\ fw_tasks[2].st = "ok"
    /\ TaskValue(2).scope_gaps # <<>>

SingleTextFrameworks ==
    {[stage |-> st, name |-> "single"] : st \in {"estimate", "gap", "strategist"}}

\* The margin before supplements that the context of a strategist call
\* implies.
ContextMargin ==
    LET estimate == fw_context[1].estimate_interpretation
    IN IF estimate = None THEN 0
       ELSE IF estimate[1].financials.original_estimate_total <= 0 THEN 0
       ELSE ((estimate[1].financials.original_estimate_total
              - estimate[1].financials.actual_costs.total) * 100)
            \div estimate[1].financials.original_estimate_total

\* The fallback of the stage as the claim describes it.
IsFallbackResult(value) ==
    CASE fw_kind.stage = "estimate" -> value.line_items = <<>>
      [] fw_kind.stage = "gap" ->
            /\ value.scope_gaps = <<>>
            /\ value.coverage_summary =
                  [critical_gaps |-> 0, major_gaps |-> 0, minor_gaps |-> 0,
                   total_unpaid_risk_items |-> 0]
      [] fw_kind.stage = "strategist" ->
            /\ value.supplements = <<>>
            /\ value.margin_analysis.current_margin = ContextMargin
            /\ value.margin_analysis.target_achieved =
                  (ContextMargin >= fw_context[1].target_margin)

\* C13: a single estimate, gap or strategist framework always returns: the
\* agent's result, or, when all max_retries attempts raised, the fallback of
\* its stage; the vision single_model framework makes one attempt and raises
\* what that attempt raised.
C13_SingleFrameworkOutcome ==
    /\ (fw_kind \in SingleTextFrameworks /\ Ended) =>
          /\ Outcome.kind = "return"
          /\ IF fw_tasks[1].st = "ok"
             THEN Outcome.value = fw_tasks[1].value
             ELSE /\ fw_tasks[1].attempt + 1 = max_retries
                  /\ IsFallbackResult(Outcome.value[1])
    /\ (fw_kind = [stage |-> "vision", name |-> "single_model"] /\ Ended) =>
          /\ fw_tasks[1].attempt = 0
          /\ IF fw_tasks[1].st = "ok"
             THEN Outcome.kind = "return" /\ Outcome.value = fw_tasks[1].value
             ELSE Outcome.kind = "raise" /\ Outcome.error = fw_tasks[1].error

C13_Witness ==
    /\ fw_kind = [stage |-> "strategist", name |-> "single"]
    /\ Ended
    /\ fw_tasks[1].st = "raised"
    /\ Outcome.value[1].margin_analysis.target_achieved

SeqRange(q) == {q[i] : i \in DOMAIN q}

\* The keys of the items of a result.
SurvivingKeys(stage, value) ==
    CASE stage = "vision" ->
            [components |-> SeqRange(ComponentTypes(value.components)),
             global_observations |->
                SeqRange(ObservationTypes(value.global_observations))]
      [] stage = "gap" -> SeqRange(GapKeys(value.scope_gaps))
      [] stage = "strategist" -> SeqRange(ItemKeys(value.supplements))

MergeFrameworks ==
    { [stage |-> "gap", name |-> "consensus"],
      [stage |-> "strategist", name |-> "consensus"],
      [stage |-> "vision", name |-> "parallel_aggregate"],
      [stage |-> "vision", name |-> "consensus_debate"],
      [stage |-> "vision", name |-> "ensemble_voting"] }

\* The two results the merge of the framework was applied to.
MergeInputs ==
    IF IsConsensus(fw_kind) THEN <<fw_a[1], fw_b[1]>>
    ELSE <<TaskValue(1), TaskValue(2)>>

\* The merge algorithm of the framework.
MergeOf(kind, a, b) ==
    CASE kind.name = "parallel_aggregate" -> ParallelAggregate_merge(a, b)
      [] kind.name = "ensemble_voting" -> EnsembleVoting_vote_merge(<<a, b>>)
      [] OTHER -> _final_merge(kind.stage, a, b)

Merged == Ended /\ Outcome.path = "merged"

\* C16: whenever one of the five merges has produced a framework's result
\* from A and B, the same merge applied to B and A has the same set of item
\* keys as that result.
C16_MergeCommutesOnKeys ==
    (fw_kind \in MergeFrameworks /\ Merged) =>
        SurvivingKeys(fw_kind.stage, Outcome.value[1]) =
            SurvivingKeys(fw_kind.stage,
                          MergeOf(fw_kind, MergeInputs[2], MergeInputs[1]))

\* One side alone has a low-confidence gap, which the merge drops, and a
\* gap both sides have.
C16_Witness ==
    /\ fw_kind = [stage |-> "gap", name |-> "consensus"]
    /\ Merged
    /\ Len(fw_a[1].scope_gaps) = 2
    /\ Len(fw_b[1].scope_gaps) = 1
    /\ Len(Outcome.value[1].scope_gaps) = 1

\* The keys of the items of a round-1 result with, per key, the scalars
\* the models can disagree on.
KeyedScalars(stage, value) ==
    CASE stage = "vision" ->
            {<<value.components[i].component_type,
               value.components[i].severity_score>> : i \in DOMAIN value.components}
      [] stage = "gap" ->
            {<<_gap_key(value.scope_gaps[i]), value.scope_gaps[i].severity>> :
               i \in DOMAIN value.scope_gaps}
      [] stage = "strategist" ->
            {<<_item_key(value.supplements[i]),
               value.supplements[i].estimated_value>> :
               i \in DOMAIN value.supplements}

\* The round-1 results have the same keys and, for every key, one and the
\* same scalar on both sides.
Round1Agrees ==
    LET ka == KeyedScalars(fw_kind.stage, TaskValue(1))
        kb == KeyedScalars(fw_kind.stage, TaskValue(2))
    IN /\ ka = kb
       /\ \A x, y \in ka : x[1] = y[1] => x[2] = y[2]

DebateStep == fw_round' = fw_round + 1

\* C20: a consensus framework carries out at most rounds - 1 debate rounds,
\* and each of them only when the results disagree; it ends before the last
\* round only on an empty disagreement set; and when the round-1 results
\* have the same keys and scalars it debates zero rounds and returns the
\* final merge of the round-1 results.
C20_DebateRounds ==
    /\ [](IsConsensus(fw_kind) =>
            /\ fw_round <= Rounds(fw_kind) - 1
            /\ (Merged /\ fw_round < Rounds(fw_kind) - 1) =>
                  _find_disagreements(fw_kind.stage, fw_a[1], fw_b[1]) = {}
            /\ (Merged /\ Round1Agrees) =>
                  /\ fw_round = 0
                  /\ Outcome.value[1] =
                        _final_merge(fw_kind.stage, TaskValue(1), TaskValue(2)))
    /\ [][DebateStep =>
            _find_disagreements(fw_kind.stage, fw_a[1], fw_b[1]) # {}]_vars

C20_Witness ==
    /\ fw_kind = [stage |-> "strategist", name |-> "consensus"]
    /\ Merged
    /\ Round1Agrees
    /\ TaskValue(1).supplements # <<>>
    /\ TaskValue(1) # TaskValue(2)
    /\ fw_round = 0

----------------------------------------------------------------------------
(* Properties of the job API *)

\* C21: GET /jobs/{job_id}/report answers 404 JOB_NOT_FOUND for an id the
\* table does not hold and 404 REPORT_NOT_READY, with no content, for every
\* job whose status is not completed; report content is served only for a
\* job whose status is completed.
C21_ReportOnlyWhenCompleted ==
    [][\A j \in JobIds :
          (/\ api_response' # api_response
           /\ api_response' # None
           /\ api_response'[1].route = "download_report"
           /\ api_response'[1].job_id = j)
          => LET job == api_jobs[j]
                 r == api_response'[1]
             IN /\ job = None => r.status_code = 404 /\ r.code = "JOB_NOT_FOUND"
                /\ (job # None /\ job[1].status # "completed")
                      => r.status_code = 404 /\ r.code = "REPORT_NOT_READY" /\ r.content = None
                /\ r.content # None => job # None /\ job[1].status = "completed"]_vars

\* The report of an escalated job that holds a PDF was asked for and refused.
C21_Witness ==
    /\ api_response # None
    /\ api_response[1].route = "download_report"
    /\ api_response[1].code = "REPORT_NOT_READY"
    /\ api_jobs[api_response[1].job_id] # None
    /\ api_jobs[api_response[1].job_id][1].status = "escalated"
    /\ api_jobs[api_response[1].job_id][1]._report_pdf

----------------------------------------------------------------------------
(* Properties of the feedback processing of the Review Loop *)

EventsOf(kind) == SelectSeq(Events, LAMBDA e : e.event = kind)

SomeFlagged(events) == \E i \in DOMAIN events : events[i].flag

AllFlagged(events) == \A i \in DOMAIN events : events[i].flag

\* _process_feedback has gone through its adjustments and rerun requests
\* and is about to return.
FeedbackProcessed == pc = "feedback" /\ sorted_reruns = <<>> /\ rerun_calls = <<>>

\* C22: after a rejected review without a critical flag the loop goes on to
\* the next cycle if and only if the processing of the feedback applied at
\* least one adjustment or executed at least one rerun; otherwise, when
\* nothing was requested, or when every adjustment was inapplicable and every
\* rerun was blocked by the budget, the loop returns that cycle's review.
C22_NextCycleOnlyAfterChanges ==
    [][ /\ (ReviewStep /\ pc' = "feedback") =>
              (sorted_reruns' # <<>> \/ cycle_events'[1] # <<>>)
        /\ (ReviewStep /\ raised' = None /\ pc' # "feedback") =>
              (loop_result' = review_result' /\ pc' = "report")
        /\ (FeedbackProcessed /\ pc' # "feedback") =>
              IF SomeFlagged(EventsOf("adjustment")) \/ SomeFlagged(EventsOf("rerun"))
              THEN pc' = "review" /\ UNCHANGED <<loop_exit, loop_result>>
              ELSE /\ pc' = "report"
                   /\ loop_result' = review_result
                   /\ review_cycle_count' = review_cycle_count
      ]_vars

\* C22 witness: in the second cycle an adjustment was inapplicable and a
\* rerun was blocked by the budget, and nothing else was done.
C22_Witness ==
    /\ FeedbackProcessed
    /\ EventsOf("adjustment") # <<>>
    /\ EventsOf("rerun") # <<>>
    /\ ~ SomeFlagged(Events)

\* The rerun requests of the cycle as the review listed them, and in the
\* order in which the for loop has reached or will reach them.
Requested == [i \in DOMAIN EventsOf("request") |-> [target_agent |-> EventsOf("request")[i].name, priority |-> EventsOf("request")[i].priority]]

Reached == [i \in DOMAIN EventsOf("rerun") |-> [target_agent |-> EventsOf("rerun")[i].name, priority |-> EventsOf("rerun")[i].priority]]

ProcessingOrder == Reached \o sorted_reruns

\* sorted is requested put in priority order, requests of equal priority
\* keeping the order they were requested in.
IsStableSort(sorted, requested) ==
    /\ Len(sorted) = Len(requested)
    /\ \E f \in [DOMAIN sorted -> DOMAIN requested] :
          /\ \A i, j \in DOMAIN sorted : i # j => f[i] # f[j]
          /\ \A i \in DOMAIN sorted : sorted[i] = requested[f[i]]
          /\ \A i, j \in DOMAIN sorted :
                i < j => \/ _priority_value(sorted[i].priority) < _priority_value(sorted[j].priority)
                         \/ /\ sorted[i].priority = sorted[j].priority
                            /\ f[i] < f[j]

RerunReached == pc = "feedback" /\ sorted_reruns # <<>> /\ sorted_reruns' # sorted_reruns

\* C23: within a cycle the adjustments are all attempted before any rerun
\* starts; the rerun requests are reached in priority order critical, high,
\* medium, low, requests of equal priority in the order of the review; a
\* request is reached only when the rerun before it has finished, and it is
\* executed exactly when its agent's rerun count is below
\* MAX_RERUNS_PER_AGENT at that moment.
C23_AdjustmentsThenRerunsByPriority ==
    /\ [](pc = "feedback" =>
            /\ \A i, j \in DOMAIN Events :
                  (i < j /\ Events[j].event = "adjustment") => Events[i].event = "adjustment"
            /\ IsStableSort(ProcessingOrder, Requested))
    /\ [][ /\ (ReviewStep /\ pc' = "feedback") =>
                 /\ UNCHANGED <<agent_rerun_counts, reruns_executed, rerun_calls>>
                 /\ \A st \in {"estimate", "gap", "strategist"} : stage_runs'[st] = stage_runs[st]
           /\ RerunReached =>
                 LET agent == Head(sorted_reruns).target_agent
                 IN /\ rerun_calls = <<>>
                    /\ sorted_reruns' = Tail(sorted_reruns)
                    /\ IF agent_rerun_counts[agent] < MAX_RERUNS_PER_AGENT
                       THEN /\ agent_rerun_counts' = [agent_rerun_counts EXCEPT ![agent] = @ + 1]
                            /\ rerun_calls' # <<>>
                       ELSE UNCHANGED <<agent_rerun_counts, rerun_calls, stage_runs, ctxVars>>
         ]_vars

\* C23 witness: after an adjustment, a low rerun requested first and a
\* critical rerun requested second were both reached, the critical one
\* first, and both were executed.
C23_Witness ==
    /\ FeedbackProcessed
    /\ EventsOf("adjustment") # <<>>
    /\ Len(Requested) = 2
    /\ Requested[1].priority = "low"
    /\ Requested[2].priority = "critical"
    /\ Len(Reached) = 2
    /\ Reached[1] = Requested[2]
    /\ AllFlagged(EventsOf("rerun"))

\* The stages of a rerun of the agent in dependency order, and the stage the
\* agent stands for.
Downstream(agent) ==
    CASE agent = "supplement_agent" -> <<"strategist">>
      [] agent = "gap_agent" -> <<"gap", "strategist">>
      [] agent = "estimate_agent" -> <<"estimate", "gap", "strategist">>
      [] agent = "vision_agent" -> <<"gap", "strategist">>

TargetStage(agent) ==
    CASE agent = "supplement_agent" -> "strategist"
      [] agent = "gap_agent" -> "gap"
      [] agent = "estimate_agent" -> "estimate"
      [] agent = "vision_agent" -> "vision"

\* The stage events that follow the rerun event at position i, up to the
\* next rerun request reached.
StagesAfter(i) ==
    LET later == {j \in DOMAIN Events : j > i /\ Events[j].event = "rerun"}
        last == IF later = {} THEN Len(Events) ELSE FirstOf(later) - 1
    IN [k \in 1..(last - i) |-> Events[i + k]]

\* The rerun reached at position i is over: a later request was reached or
\* _process_feedback is about to return.
RerunOver(i) ==
    \/ \E j \in DOMAIN Events : j > i /\ Events[j].event = "rerun"
    \/ FeedbackProcessed

StageCalled == pc = "feedback" /\ rerun_calls # <<>> /\ rerun_calls' # rerun_calls

\* C24: an executed rerun calls the stages downstream of its target in
\* dependency order (supplement_agent: strategist; gap_agent: gap,
\* strategist; estimate_agent: estimate, gap, strategist; vision_agent: gap,
\* strategist), each call executing that stage once and no other; the
\* reviewer's instructions go to the stage of the target agent only; a rerun
\* that is skipped calls no stage; vision_evidence is not changed.
C24_RerunCascade ==
    /\ [](pc = "feedback" =>
            \A i \in DOMAIN Events : Events[i].event = "rerun" =>
                LET called == StagesAfter(i)
                    agent == Events[i].name
                IN /\ \A k \in DOMAIN called : called[k].event = "stage"
                   /\ ~ Events[i].flag => called = <<>>
                   /\ Events[i].flag =>
                         /\ Len(called) <= Len(Downstream(agent))
                         /\ \A k \in DOMAIN called :
                               /\ called[k].name = Downstream(agent)[k]
                               /\ called[k].flag <=> called[k].name = TargetStage(agent)
                         /\ RerunOver(i) => Len(called) = Len(Downstream(agent)))
    /\ [][ /\ pc = "feedback" => vision_evidence' = vision_evidence
           /\ StageCalled =>
                 /\ cycle_events'[1] = Append(Events, StageEvent(Head(rerun_calls)))
                 /\ stage_runs' = [stage_runs EXCEPT ![Head(rerun_calls).stage] = @ + 1]
         ]_vars

\* C24 witness: a vision_agent rerun and an estimate_agent rerun were both
\* executed in one cycle, five stage calls in all.
C24_Witness ==
    /\ FeedbackProcessed
    /\ \E i, j \in DOMAIN Events :
          /\ Events[i] = RerunEvent([target_agent |-> "vision_agent", priority |-> "critical"], TRUE)
          /\ Events[j] = RerunEvent([target_agent |-> "estimate_agent", priority |-> "low"], TRUE)
    /\ Len(EventsOf("stage")) = 5

----------------------------------------------------------------------------
(* Properties of the extraction phase *)

\* The photos whose vision analysis has started and has neither returned nor
\* been given up.
InFlight == {p \in 1..nPhotos : photo_pc[p] \in {"calling", "sleeping"}}

\* The batch a photo belongs to when the photos are cut into consecutive
\* batches of PHOTO_BATCH_SIZE in submission order.
BatchOf(p) == (p - 1) \div PHOTO_BATCH_SIZE

\* C25: during the extraction phase at most PHOTO_BATCH_SIZE vision analyses
\* are in flight; the photos in flight belong to one batch of consecutive
\* photos; no photo of a later batch has started while a photo of an earlier
\* batch has neither succeeded nor exhausted its MAX_RETRIES attempts; the
\* estimate task is started with the first batch and its result is taken
\* only after the last batch is over and the task is done.
C25_BatchedVision ==
    /\ [](/\ Cardinality(InFlight) <= PHOTO_BATCH_SIZE
          /\ \A p, q \in 1..nPhotos :
                (BatchOf(q) < BatchOf(p) /\ photo_pc[p] # "idle")
                   => photo_pc[q] \in {"ok", "failed"}
          /\ pc = "vision_batches" => estimate_task \in {"running", "done"})
    /\ [][ /\ \A p \in 1..nPhotos :
                 (photo_pc[p] # "failed" /\ photo_pc'[p] = "failed")
                    => photo_attempt[p] = MAX_RETRIES - 1
           /\ estimate_interpretation' # estimate_interpretation =>
                 /\ pc = "await_estimate"
                 /\ InFlight = {}
                 /\ \A p \in 1..nPhotos : photo_pc[p] \in {"ok", "failed"}
                 /\ estimate_task = "done"
                 /\ estimate_interpretation' = estimate_task_value
         ]_vars

\* C25 witness: the second batch is in flight after a photo of the first
\* batch was given up, and the estimate task is still running.
C25_Witness ==
    /\ pc = "vision_batches"
    /\ nPhotos > PHOTO_BATCH_SIZE
    /\ photo_pc[PHOTO_BATCH_SIZE + 1] = "sleeping"
    /\ photo_pc[1] = "failed"
    /\ Cardinality({p \in 1..nPhotos : photo_pc[p] = "ok"}) = PHOTO_BATCH_SIZE - 1
    /\ estimate_task = "running"

----------------------------------------------------------------------------
(* Properties of the LLM-call counter *)

\* The declared cost of a framework, by stage and name.
DeclaredCost(stage, name) ==
    CASE stage = "vision" -> IF name = "single_model" THEN 1 ELSE 2
      [] stage = "estimate" -> IF name = "ensemble" THEN 2 ELSE 1
      [] stage \in {"gap", "strategist"} -> IF name = "consensus" THEN 3 ELSE 1

\* C26: a completed run with P photos and R review cycles reports
\* llm_calls = P*v + e + g + s + R + 1 when no rerun was executed, v, e, g
\* and s being the declared costs of the selected frameworks, however many
\* attempts the calls took; every execution of a stage by a rerun adds the
\* declared cost of the stage once more.
C26_StaticCallCount ==
    (Returned /\ Status = "completed") =>
        result[1].llm_calls =
            nPhotos * DeclaredCost("vision", vision_framework_name)
            + stage_runs["estimate"] * DeclaredCost("estimate", estimate_framework_name)
            + stage_runs["gap"] * DeclaredCost("gap", gap_framework_name)
            + stage_runs["strategist"] * DeclaredCost("strategist", strategist_framework_name)
            + review_cycle_count + 1

----------------------------------------------------------------------------
(* Properties of the debate rounds *)

DebateRoundStep == fw_pc = "debate" /\ fw_round' = fw_round + 1

\* C27: in a debate round a side whose re-prompt failed keeps exactly the
\* result it had before the round, whether or not the other side failed too;
\* the other side's patch is still requested and applied to its own result;
\* the round leaves analyze() running, and an analyze() that went through a
\* debate round returns a result.
C27_FailedRepromptKeepsResult ==
    /\ [][DebateRoundStep =>
            LET stage == fw_kind.stage
                answers == fw_answers'
            IN /\ answers.primary = None => fw_a' = fw_a
               /\ answers.secondary = None => fw_b' = fw_b
               /\ answers.primary # None =>
                     fw_a' = Some(_apply_adjustments(stage, fw_a[1], fw_b[1],
                                                     answers.primary[1]))
               /\ answers.secondary # None =>
                     fw_b' = Some(_apply_adjustments(stage, fw_b[1], fw_a'[1],
                                                     answers.secondary[1]))
               /\ fw_pc' = "debate"
               /\ fw_outcome' = None]_vars
    /\ []((Ended /\ fw_round > 0) => Outcome.kind = "return")

\* C27 witness: a gap analyze() returned after a round in which the primary's
\* re-prompt failed and the secondary answered a patch.
C27_Witness ==
    /\ Ended
    /\ fw_kind.stage = "gap"
    /\ fw_round > 0
    /\ fw_answers.primary = None
    /\ fw_answers.secondary # None
    /\ Outcome.kind = "return"

\* The items of a gap or strategist result, and whether two items are the
\* same up to the field a patch may correct (severity, price).
ItemsOf(stage, r) == IF stage = "gap" THEN r.scope_gaps ELSE r.supplements

SameUpToCorrection(stage, x, y) ==
    IF stage = "gap"
    THEN [x EXCEPT !.severity = y.severity] = y
    ELSE [x EXCEPT !.estimated_value = y.estimated_value] = y

FromOwn(stage, item, own) ==
    \E i \in DOMAIN ItemsOf(stage, own) : SameUpToCorrection(stage, item, ItemsOf(stage, own)[i])

TakenUnchanged(stage, item, other) ==
    \E i \in DOMAIN ItemsOf(stage, other) : item = ItemsOf(stage, other)[i]

TakenUpToCorrection(stage, item, other) ==
    \E i \in DOMAIN ItemsOf(stage, other) : SameUpToCorrection(stage, item, ItemsOf(stage, other)[i])

\* Whether an add entry of the patch selects an item of the counterpart.
SelectsSome(stage, patch, other) ==
    IF stage = "gap"
    THEN \E i \in DOMAIN other.scope_gaps : other.scope_gaps[i].gap_id \in patch.add_gaps
    ELSE \E i \in DOMAIN other.supplements, n \in DOMAIN patch.add_items :
            Normalize(other.supplements[i].line_item_description) = patch.add_items[n]

PatchStep == DebateRoundStep /\ fw_kind.stage \in {"gap", "strategist"}

\* C28 as stated: after a debate patch on a gap or supplement result every
\* item is an item of that side's previous result, possibly with a changed
\* severity or price, or an item taken unchanged from the counterpart.
C28_PatchedItemsUnchanged ==
    [][PatchStep =>
         /\ \A k \in DOMAIN ItemsOf(fw_kind.stage, fw_a'[1]) :
               LET item == ItemsOf(fw_kind.stage, fw_a'[1])[k]
               IN FromOwn(fw_kind.stage, item, fw_a[1])
                  \/ TakenUnchanged(fw_kind.stage, item, fw_b[1])
         /\ \A k \in DOMAIN ItemsOf(fw_kind.stage, fw_b'[1]) :
               LET item == ItemsOf(fw_kind.stage, fw_b'[1])[k]
               IN FromOwn(fw_kind.stage, item, fw_b[1])
                  \/ TakenUnchanged(fw_kind.stage, item, fw_a'[1])]_vars

\* C28 amended: after a debate patch on a gap or supplement result every
\* item is an item of that side's previous result or an item of the
\* counterpart's result, in both cases possibly with the severity or price
\* the same patch corrects; a patch whose add entries select no item of the
\* counterpart adds nothing.
C28_PatchedItemsSelected ==
    [][PatchStep =>
         /\ \A k \in DOMAIN ItemsOf(fw_kind.stage, fw_a'[1]) :
               LET item == ItemsOf(fw_kind.stage, fw_a'[1])[k]
               IN FromOwn(fw_kind.stage, item, fw_a[1])
                  \/ TakenUpToCorrection(fw_kind.stage, item, fw_b[1])
         /\ \A k \in DOMAIN ItemsOf(fw_kind.stage, fw_b'[1]) :
               LET item == ItemsOf(fw_kind.stage, fw_b'[1])[k]
               IN FromOwn(fw_kind.stage, item, fw_b[1])
                  \/ TakenUpToCorrection(fw_kind.stage, item, fw_a'[1])
         /\ (fw_answers'.primary # None
                /\ ~ SelectsSome(fw_kind.stage, fw_answers'.primary[1], fw_b[1]))
              => /\ Len(ItemsOf(fw_kind.stage, fw_a'[1])) <= Len(ItemsOf(fw_kind.stage, fw_a[1]))
                 /\ \A k \in DOMAIN ItemsOf(fw_kind.stage, fw_a'[1]) :
                       FromOwn(fw_kind.stage, ItemsOf(fw_kind.stage, fw_a'[1])[k], fw_a[1])
         /\ (fw_answers'.secondary # None
                /\ ~ SelectsSome(fw_kind.stage, fw_answers'.secondary[1], fw_a'[1]))
              => /\ Len(ItemsOf(fw_kind.stage, fw_b'[1])) <= Len(ItemsOf(fw_kind.stage, fw_b[1]))
                 /\ \A k \in DOMAIN ItemsOf(fw_kind.stage, fw_b'[1]) :
                       FromOwn(fw_kind.stage, ItemsOf(fw_kind.stage, fw_b'[1])[k], fw_b[1])]_vars

\* C28 witness: in the first round the primary, whose own result had no gap
\* G3, answered a patch that adds G3 and G7 and sets the severity of G3; its
\* result now holds the counterpart's G3 with the new severity and no G7.
C28_Witness ==
    /\ fw_kind.stage = "gap"
    /\ fw_round = 1
    /\ fw_answers.primary # None
    /\ fw_answers.primary[1].add_gaps = {"G3", "G7"}
    /\ \A i \in DOMAIN fw_tasks[1].value[1].scope_gaps :
          fw_tasks[1].value[1].scope_gaps[i].gap_id # "G3"
    /\ \E i \in DOMAIN fw_a[1].scope_gaps :
          /\ fw_a[1].scope_gaps[i].gap_id = "G3"
          /\ fw_a[1].scope_gaps[i].severity = "minor"
    /\ \A i \in DOMAIN fw_a[1].scope_gaps : fw_a[1].scope_gaps[i].gap_id # "G7"

----------------------------------------------------------------------------
(* Properties of the final merge and of the majority vote                  *)

\* The keyed items of a result, their key and their own confidence.
KeyedItems(stage, r) == IF stage = "vision" THEN r.components ELSE ItemsOf(stage, r)

KeyOf(stage, item) ==
    CASE stage = "vision" -> <<item.component_type>>
      [] stage = "gap" -> _gap_key(item)
      [] stage = "strategist" -> _item_key(item)

ConfidenceOf(stage, item) ==
    IF stage = "vision" THEN item.detection_confidence ELSE item.confidence

KeysIn(stage, r) ==
    {KeyOf(stage, KeyedItems(stage, r)[i]) : i \in DOMAIN KeyedItems(stage, r)}

\* The minimum confidence of a one-sided item, in hundredths: 0.7 for gaps,
\* 0.6 for supplements, and the lower of the two for components.
MinConfidence(stage) == IF stage = "gap" THEN 70 ELSE 60

\* The keys found by `own` only, every item of which is below the minimum.
OneSidedBelow(stage, own, other) ==
    {k \in KeysIn(stage, own) \ KeysIn(stage, other) :
        \A i \in DOMAIN KeyedItems(stage, own) :
           KeyOf(stage, KeyedItems(stage, own)[i]) = k
              => ConfidenceOf(stage, KeyedItems(stage, own)[i]) < MinConfidence(stage)}

FinalMergeReturned ==
    /\ fw_pc = "done"
    /\ IsConsensus(fw_kind)
    /\ fw_outcome # None
    /\ fw_outcome[1].path = "merged"

\* C29: in the final merge of a consensus framework (vision, gap,
\* strategist) an item found by one model only, whose own confidence is
\* below the minimum for its kind, never appears in the merged result.
C29_OneSidedBelowThresholdDropped ==
    FinalMergeReturned =>
       \A k \in OneSidedBelow(fw_kind.stage, fw_a[1], fw_b[1])
                 \cup OneSidedBelow(fw_kind.stage, fw_b[1], fw_a[1]) :
          k \notin KeysIn(fw_kind.stage, fw_outcome[1].value[1])

\* The models of the ensemble whose result holds a component, or an
\* observation, of the given type.
ModelsWithComponent(t) ==
    {i \in DOMAIN fw_tasks :
        /\ fw_tasks[i].st = "ok"
        /\ \E n \in DOMAIN fw_tasks[i].value[1].components :
              fw_tasks[i].value[1].components[n].component_type = t}

ModelsWithObservation(t) ==
    {i \in DOMAIN fw_tasks :
        /\ fw_tasks[i].st = "ok"
        /\ \E n \in DOMAIN fw_tasks[i].value[1].global_observations :
              fw_tasks[i].value[1].global_observations[n].type = t}

VoteMergeReturned ==
    /\ fw_pc = "done"
    /\ fw_kind.name = "ensemble_voting"
    /\ fw_outcome # None
    /\ fw_outcome[1].path = "merged"

\* C30: in the result merged by ensemble_voting over N models a component
\* type or observation type appears only if at least floor(N/2)+1 distinct
\* models produced it, and no component's detection_confidence exceeds 1.0.
C30_MajorityOfDistinctModels ==
    VoteMergeReturned =>
       LET merged == fw_outcome[1].value[1]
           majority == (Len(fw_tasks) \div 2) + 1
       IN /\ \A n \in DOMAIN merged.components :
                /\ Cardinality(ModelsWithComponent(merged.components[n].component_type))
                      >= majority
                /\ merged.components[n].detection_confidence <= 100
          /\ \A n \in DOMAIN merged.global_observations :
                Cardinality(ModelsWithObservation(merged.global_observations[n].type))
                   >= majority

----------------------------------------------------------------------------
(* Properties of the adjustments of the Review Loop                        *)

\* The adjustment loop of _process_feedback ran in this step.
AdjustmentsProcessed == pc = "review" /\ pc' = "feedback"

\* C32: applying the adjustments of a review leaves the objects the gap and
\* strategist stages produced as they were: whoever holds the
\* pre-adjustment object still reads the pre-adjustment values.
C32_StageOutputUnmodified ==
    [][AdjustmentsProcessed => stage_output' = stage_output]_vars

\* The collection an adjustment targets, as a sequence of items, and the
\* name of its id field; no collection for line_item and evidence.
TargetItems(adjustment, gap, strategy) ==
    CASE adjustment.target_type = "supplement" /\ strategy # None -> strategy[1].supplements
      [] adjustment.target_type = "gap" /\ gap # None -> gap[1].scope_gaps
      [] OTHER -> <<>>

IdField(adjustment) ==
    IF adjustment.target_type = "supplement" THEN "supplement_id" ELSE "gap_id"

\* The positions an adjustment can act on: the id is the target id and the
\* item has the named field.
Applicable(adjustment, gap, strategy) ==
    LET items == TargetItems(adjustment, gap, strategy)
    IN {i \in DOMAIN items :
          /\ items[i][IdField(adjustment)] = adjustment.target_id
          /\ adjustment.field \in DOMAIN items[i]}

\* The context after the adjustment differs from the one before in the named
\* field of the item at position i of the targeted collection, at most.
OnlyFieldOfItem(adjustment, i) ==
    IF adjustment.target_type = "supplement"
    THEN /\ gap_analysis' = gap_analysis
         /\ supplement_strategy' =
               Some([supplement_strategy[1] EXCEPT
                       !.supplements[i][adjustment.field] = adjustment.suggested_value])
    ELSE /\ supplement_strategy' = supplement_strategy
         /\ gap_analysis' =
               Some([gap_analysis[1] EXCEPT
                       !.scope_gaps[i][adjustment.field] = adjustment.suggested_value])

\* C31: applying one adjustment changes at most the named field of one
\* item with the target id in the targeted collection and counts as a
\* change; an adjustment with an unknown target id, an unknown field or the
\* target type line_item or evidence changes nothing and is not counted;
\* the other context members are never touched.
C31_AdjustmentFrame ==
    [][\A adjustment \in AdjustmentInputs :
         ApplyAdjustment(adjustment) =>
            /\ UNCHANGED <<raw_estimate_text, vision_evidence,
                           estimate_interpretation, review_result,
                           review_cycle_count>>
            /\ IF Applicable(adjustment, gap_analysis, supplement_strategy) = {}
               THEN UNCHANGED <<gap_analysis, supplement_strategy, changes>>
               ELSE /\ changes'
                    /\ \E i \in Applicable(adjustment, gap_analysis,
                                            supplement_strategy) :
                          OnlyFieldOfItem(adjustment, i)]_vars

\* C31 witness: of two supplements with the id S1 the first one has the
\* adjusted priority and the second one still its own.
C31_Witness ==
    /\ pc = "feedback"
    /\ changes
    /\ supplement_strategy # None
    /\ supplement_strategy[1].supplements =
          <<[supplement_id |-> "S1", priority |-> "low"],
            [supplement_id |-> "S1", priority |-> "medium"]>>

----------------------------------------------------------------------------
(* Properties of the aggregates of consensus results                       *)

\* The four coverage counts are the tallies over the gaps of the result.
CoverageFresh(r) ==
    LET gaps == r.scope_gaps
        Tally(sev) == Cardinality({i \in DOMAIN gaps : gaps[i].severity = sev})
    IN /\ r.coverage_summary.critical_gaps = Tally("critical")
       /\ r.coverage_summary.major_gaps = Tally("major")
       /\ r.coverage_summary.minor_gaps = Tally("minor")
       /\ r.coverage_summary.total_unpaid_risk_items =
             Cardinality({i \in DOMAIN gaps : gaps[i].unpaid_work_risk})

\* The margin figures follow from the supplements of the result.
MarginFresh(r) ==
    LET m == r.margin_analysis
        total == SumOver([i \in DOMAIN r.supplements |->
                            r.supplements[i].estimated_value])
        projected == IF m.original_estimate + total > 0
                     THEN ((m.original_estimate + total - m.total_costs) * 100)
                             \div (m.original_estimate + total)
                     ELSE 0
    IN /\ m.proposed_supplement_total = total
       /\ m.new_estimate_total = m.original_estimate + total
       /\ m.projected_margin = projected
       /\ m.target_achieved = (projected >= m.target_margin)

AggregatesFresh(stage, r) ==
    IF stage = "gap" THEN CoverageFresh(r) ELSE MarginFresh(r)

\* C33: a gap or strategist result that a debate patch was applied to in
\* the latest round, and the result of a final merge, have their aggregates
\* computed from the items they hold.
C33_AggregatesRecomputed ==
    fw_kind.stage \in {"gap", "strategist"} =>
       /\ fw_answers.primary # None => AggregatesFresh(fw_kind.stage, fw_a[1])
       /\ fw_answers.secondary # None => AggregatesFresh(fw_kind.stage, fw_b[1])
       /\ FinalMergeReturned =>
             AggregatesFresh(fw_kind.stage, fw_outcome[1].value[1])

\* C33 witness: a strategist final merge after a debate round in which the
\* primary was patched, with a total other than the one the primary stated
\* in its first answer.
C33_Witness ==
    /\ fw_kind.stage = "strategist"
    /\ FinalMergeReturned
    /\ fw_round >= 1
    /\ fw_answers.primary # None
    /\ fw_outcome[1].value[1].supplements # <<>>
    /\ fw_outcome[1].value[1].margin_analysis.proposed_supplement_total #
          fw_tasks[1].value[1].margin_analysis.proposed_supplement_total
    /\ fw_a[1].margin_analysis.proposed_supplement_total #
          fw_tasks[1].value[1].margin_analysis.proposed_supplement_total

----------------------------------------------------------------------------
(* Properties of the LLM-call budget                                       *)

\* C34: in every state of a run the LLM-call counter is at most
\* MAX_TOTAL_LLM_CALLS.
C34_WithinLlmBudget == llm_call_count <= MAX_TOTAL_LLM_CALLS

\* One execution of the named stage and of nothing else started in this step.
StageExecuted(stage) == stage_runs' = [stage_runs EXCEPT ![stage] = @ + 1]

\* The extraction phase starts: the estimate task and the photos of the
\* first batch are charged.
ExtractionStarted == estimate_task = "none" /\ estimate_task' = "running"

\* C35: an execution of a stage whose constructed framework is the
\* single-model one adds 1 to the LLM-call counter, whatever framework name
\* was requested.
C35_CostOfConstructedFramework ==
    [][/\ (ExtractionStarted /\ estimate_framework = "single"
                             /\ vision_framework = "single_model")
             => llm_call_count' = llm_call_count + 1
                                  + Min(nPhotos, PHOTO_BATCH_SIZE)
       /\ (StageExecuted("estimate") /\ pc = "feedback"
                                     /\ estimate_framework = "single")
             => llm_call_count' = llm_call_count + 1
       /\ (StageExecuted("gap") /\ gap_framework = "single")
             => llm_call_count' = llm_call_count + 1
       /\ (StageExecuted("strategist") /\ strategist_framework = "single")
             => llm_call_count' = llm_call_count + 1]_vars

----------------------------------------------------------------------------
(* Properties of the Review Loop across adjustments and reruns             *)

\* The context holds an item with the target id whose named field has the
\* suggested value.
PatchPresent(adjustment) ==
    LET items == TargetItems(adjustment, gap_analysis, supplement_strategy)
    IN \E i \in DOMAIN items :
          /\ items[i][IdField(adjustment)] = adjustment.target_id
          /\ adjustment.field \in DOMAIN items[i]
          /\ items[i][adjustment.field] = adjustment.suggested_value

\* _process_feedback returns: the next review, or the report, comes next.
FeedbackReturns == pc = "feedback" /\ pc' # "feedback"

\* C36: when _process_feedback returns, every adjustment it applied is
\* still in the context that the next review or the report reads: no rerun
\* of the same cycle replaced the patched object.
C36_PatchSurvivesCycle ==
    [][FeedbackReturns =>
         \A i \in DOMAIN Events :
            (Events[i].event = "adjustment" /\ Events[i].flag)
               => PatchPresent(Events[i].detail[1])]_vars

\* The Review Loop made changes (applied an adjustment or executed a rerun)
\* in its latest _process_feedback call and no review has run since: the
\* loop is back at the head of its for statement with changes_made true.
UnreviewedChanges == pc = "review" /\ changes

\* C37: the Review Loop never hands over to the report stage, without
\* another review, while changes it made to the gap analysis or the strategy
\* have not been reviewed.
C37_ChangesReviewedBeforeReport ==
    [][(/\ pc # "report"
        /\ pc' = "report"
        /\ stage_runs'["review"] = stage_runs["review"]) => ~ UnreviewedChanges]_vars

-----------------------------------------------------------------------------
(* Properties of the cancellation of a job *)

Cancelled(j) == api_jobs[j] # None /\ api_jobs[j][1].status = "cancelled"

\* DELETE /jobs/{job_id} has answered for job j in this step (the steps of
\* process_job and POST /jobs move a task, the other routes answer under
\* their own name).
CancelAnswered(j) ==
    /\ api_response' # None
    /\ api_response'[1].route = "cancel_job"
    /\ api_response'[1].job_id = j
    /\ api_tasks' = api_tasks

\* C38: a job whose status is cancelled keeps that status whatever the
\* process_job task of the job does afterwards, and DELETE /jobs/{job_id}
\* is refused with 400 CANNOT_CANCEL, leaving the row alone, for a job that
\* is completed or failed.
C38_CancelledStaysCancelled ==
    [][\A j \in JobIds :
          /\ Cancelled(j) => Cancelled(j)'
          /\ (/\ CancelAnswered(j)
              /\ api_jobs[j] # None
              /\ api_jobs[j][1].status \in {"completed", "failed"})
                => /\ api_response'[1].status_code = 400
                   /\ api_response'[1].code = "CANNOT_CANCEL"
                   /\ api_jobs'[j] = api_jobs[j]]_vars

-----------------------------------------------------------------------------
(* Properties of agreement in the gap and strategist final merges *)

ItemsIn(stage, r) == {KeyedItems(stage, r)[i] : i \in DOMAIN KeyedItems(stage, r)}

\* The keys both models' final results hold.
AgreedKeys(stage, a, b) == KeysIn(stage, a) \cap KeysIn(stage, b)

\* C39: in the final merge of the gap and of the strategist consensus, an
\* item of the merged result whose key is not in both models' final
\* results is an item of one model as that model returned it (not merged,
\* its confidence not boosted) and its confidence is at least the minimum
\* for its kind: same-key items of one model alone are no agreement.
C39_AgreementNeedsBothModels ==
    (FinalMergeReturned /\ fw_kind.stage \in {"gap", "strategist"}) =>
       \A item \in ItemsIn(fw_kind.stage, fw_outcome[1].value[1]) :
          KeyOf(fw_kind.stage, item) \notin AgreedKeys(fw_kind.stage, fw_a[1], fw_b[1])
             => /\ item \in ItemsIn(fw_kind.stage, fw_a[1]) \cup ItemsIn(fw_kind.stage, fw_b[1])
                /\ ConfidenceOf(fw_kind.stage, item) >= MinConfidence(fw_kind.stage)

-----------------------------------------------------------------------------
(* Properties of the human flags of the result *)

CriticalFlags(review) ==
    {review.human_flags[i] : i \in {i \in DOMAIN review.human_flags : review.human_flags[i].severity = "critical"}}

\* C40: once run() has returned after the Review Loop returned a review,
\* every critical human flag of that review is in human_flags of the
\* result, also when the review is approved and ready for delivery.
C40_CriticalFlagCarried ==
    (Returned /\ LoopReturned) =>
       \A flag \in CriticalFlags(loop_result[1]) :
          /\ result[1].human_flags # None
          /\ \E i \in DOMAIN result[1].human_flags[1] : result[1].human_flags[1][i] = flag

====
